---- MODULE Spec2Model ----
(***************************************************************************)
(* Model of the MetaTrader5 streaming receiver                              *)
(* (src/nautilus_mt5/client/ea/data_stream.pyx, class MetaTrader5Streamer). *)
(*                                                                          *)
(* The receiver owns a listening socket, a stop event, a task table (an     *)
(* insertion-ordered Python dict) and a set of websocket clients.  start()  *)
(* spawns a thread that runs _run_streaming_loop, and then, when            *)
(* use_websockets is set, enters the asyncio event loop with run_forever(). *)
(* The thread runs either the accept loop (_stream_socket) or the task      *)
(* polling loop.  Python exceptions are modelled by the handler that        *)
(* catches them: the thread's exit cause records the exception that ended   *)
(* _run_streaming_loop.  cdef functions propagate exceptions (Cython 3).    *)
(***************************************************************************)
EXTENDS FiniteSets, Integers, Sequences, TLC

VARIABLES
    use_socket,         \* bint use_socket (constructor argument)
    use_websockets,     \* bint use_websockets (constructor argument)
    callback,           \* consumer callback, "None" when unset
    stream_tasks,       \* dict task_id -> (symbol, interval, callback, kwargs), in insertion order
    stream_thread,      \* 0 for None, else the id of the last thread start() created
    stream_socket,      \* "fresh" | "listening" | "closed"
    stream_stop_event,  \* threading.Event: TRUE when set
    ws_server,          \* "None" | "serving"
    connected_clients,  \* set of websocket connections
    thr,                \* thr[t]: the state of poll thread t
    start_pc,           \* where the caller of start() is
    stop_pc,            \* where the caller of stop() is
    stop_outcome,       \* how stop() ended, when it was the last lifecycle call: "none" | "returned" | "raised"
    stops_in_row,       \* stop() calls completed since the last start(): 0, 1, or 2 for more
    backlog,            \* connections pending on the listening socket
    conns,              \* accepted connections that were not closed
    delivered,          \* frames passed to the consumer callback, in order
    ws_outbox,          \* ws_outbox[c]: frames sent to websocket client c (the source holds no send)
    nframes,            \* streaming connections made by the terminal so far
    last_call,          \* the last task-table call and what it met
    pushed,             \* accepted connections on which the peer has sent a further frame, unread
    obj,                \* _add_time_human: the parsed record handed to it, <<>> when none
    enriched,           \* _add_time_human: the record after the call, <<>> before it
    codec,              \* a message on its way through MakeMessage and ParseRequest
    only_stream,        \* terminal: input ONLY_STREAM_MODE
    ea,                 \* terminal: "running", or "stopped" by a critical runtime error
    rest_backlog,       \* terminal: connections pending on restServer
    stream_backlog,     \* terminal: connections pending on streamingServer
    streamingClients,   \* terminal: ClientSocket *streamingClients[]
    undeleted,          \* terminal: accepted ClientSocket objects neither deleted nor stored
    exchange,           \* terminal: the command exchange of the last handler call
    produced,           \* terminal: the messages the handlers made in the last handler call
    sent,               \* terminal: the sends of the last handler call, in order
    nrest,              \* terminal: connections made to the REST socket so far
    nstream,            \* terminal: connections made to the streaming socket so far
    lastBarTime,        \* terminal: datetime lastBarTime
    watched,            \* terminal: the symbols in Market Watch
    restServer,         \* terminal: ServerSocket *restServer, "live" | "NULL"
    streamingServer,    \* terminal: ServerSocket *streamingServer, "live" | "NULL"
    charts              \* charts[c]: chart c, the multi-chart program on it and its event queue

vars == <<use_socket, use_websockets, callback, stream_tasks, stream_thread,
          stream_socket, stream_stop_event, ws_server, connected_clients, thr,
          start_pc, stop_pc, stop_outcome, stops_in_row, backlog, conns,
          delivered, ws_outbox, nframes, last_call, pushed, obj, enriched, codec,
          only_stream, ea,
          rest_backlog, stream_backlog, streamingClients, undeleted, exchange,
          produced, sent, nrest, nstream, lastBarTime, watched, restServer,
          streamingServer, charts>>

\* The receiver's own state.
streamerVars == <<use_socket, use_websockets, callback, stream_tasks,
                  stream_thread, stream_socket, stream_stop_event, ws_server,
                  connected_clients, thr, start_pc, stop_pc, stop_outcome,
                  stops_in_row, backlog, conns, delivered, ws_outbox, nframes,
                  last_call, pushed>>

\* The record under enrichment.
enrichVars == <<obj, enriched>>

\* The terminal's two server sockets.
serverVars == <<restServer, streamingServer>>

\* The terminal's state.
termVars == <<only_stream, ea, rest_backlog, stream_backlog, streamingClients,
              undeleted, exchange, produced, sent, nrest, nstream, lastBarTime,
              watched, serverVars>>

\* The charts of the manager and worker programs.
chartVars == <<charts>>

\* What the peer has in flight on the connections the receiver accepted.
peerVars == <<pushed>>

\* What the receiver's lifecycle, table and thread steps leave alone.
extVars == <<enrichVars, codec, termVars, peerVars, chartVars>>

\* Groups used in UNCHANGED clauses.
cfgVars  == <<use_socket, use_websockets>>
sockVars == <<backlog, conns, nframes>>
wsVars   == <<ws_server, connected_clients, ws_outbox>>
lifeVars == <<start_pc, stop_pc, stop_outcome, stops_in_row>>

----------------------------------------------------------------------------
\* Bounds of the model.
MaxThreads == 2     \* poll threads alive at the same time
MaxFrames  == 2     \* streaming connections made by the terminal
MaxClients == 2     \* websocket clients
MaxSymbols == 2     \* length of the symbols list of one call
MaxTasks   == 2     \* entries of the task table

Threads   == 1..MaxThreads
WsClients == 1..MaxClients

\* Input alphabets.  "A"/"B-1" and "A-B"/"1" are two different
\* (symbol, request id) pairs whose strings contain '-'.
Symbols   == {"A", "A-B"}
ReqIds    == {"1", "B-1"}
Intervals == {1, 2}
Producers == {"producer"}
Kwargs    == {"{}"}
Callbacks == {"cb1", "cb2"}

\* The tasks subscribed while the receiver runs.
PollSymbols   == {"A", "A-B"}
PollReqIds    == {"1"}
PollIntervals == {1}

SymbolLists == UNION {[1..n -> Symbols] : n \in 1..MaxSymbols}

\* The bytes one connection of the terminal gives to the single recv():
\* end of stream ("eof"), or data described by whether it decodes as UTF-8,
\* whether the text is JSON, and what the record's "time" value is.
Data(u, j, t) == [bytes |-> "data", utf8 |-> u, json |-> j, time |-> t]
Eof     == [bytes |-> "eof", utf8 |-> FALSE, json |-> FALSE, time |-> "absent"]
Payloads == {Eof,
             Data(FALSE, FALSE, "absent"),   \* undecodable bytes
             Data(TRUE, FALSE, "absent"),    \* text that is not JSON
             Data(TRUE, TRUE, "text"),       \* JSON, "time" is not a number
             Data(TRUE, TRUE, "epoch"),      \* JSON, "time" is an epoch number
             Data(TRUE, TRUE, "absent")}     \* JSON without "time"

NoTask == [id |-> "", symbol |-> "", interval |-> 0, callback |-> "", kwargs |-> ""]
NoConn == [id |-> 0, quiet |-> FALSE]

IdleThread == [pc |-> "unborn", conn |-> NoConn, it_used |-> 0, it_pos |-> 0,
               it_dirty |-> FALSE, task |-> NoTask, cause |-> "none"]

NoCall == [op |-> "none", known |-> FALSE]

\* No command exchange in the last handler call.
NoExchange == [client |-> 0, connected |-> FALSE, request |-> <<>>,
               served |-> FALSE, crash |-> FALSE, response |-> <<>>]

\* OnInit: StartServers, lastBarTime, EventSetTimer.
TermStart ==
    /\ ea = "running"
    /\ rest_backlog = <<>>
    /\ stream_backlog = <<>>
    /\ streamingClients = <<>>
    /\ undeleted = {}
    /\ exchange = NoExchange
    /\ produced = <<>>
    /\ sent = <<>>
    /\ nrest = 0
    /\ nstream = 0
    /\ lastBarTime = 0
    /\ watched = {}
    /\ restServer = "live"
    /\ streamingServer = "live"

\* Charts of the terminal.
MaxCharts == 2
Charts == 1..MaxCharts

\* A chart that is open with no program on it: the globals workers, managers
\* and queue of a program exist once it is attached, and are empty and zero
\* then.
BareChart == [open |-> TRUE, loaded |-> FALSE, mode |-> "MCEA_WORKER",
              workers |-> <<>>, managers |-> <<>>, queue_id |-> 0,
              inbox |-> <<>>]

\* The charts are open and no program is attached yet.
ChartsStart == charts = [c \in Charts |-> BareChart]

\* No message in the codec; no result of ParseRequest.
NoParse == [crash |-> FALSE, command |-> <<>>, subCommand |-> <<>>, parameters |-> <<>>]
NoCodec == [stage |-> "none", command |-> <<>>, subCommand |-> <<>>,
            parameters |-> <<>>, line |-> <<>>, parsed |-> NoParse]

----------------------------------------------------------------------------
\* __init__
StreamerInit ==
    /\ use_socket \in BOOLEAN
    /\ use_websockets \in BOOLEAN
    /\ callback \in {"None", "cb1"}
    /\ stream_tasks = <<>>
    /\ stream_thread = 0
    /\ stream_socket = "fresh"
    /\ stream_stop_event = FALSE
    /\ ws_server = "None"
    /\ connected_clients = {}
    /\ thr = [t \in Threads |-> IdleThread]
    /\ start_pc = "idle"
    /\ stop_pc = "idle"
    /\ stop_outcome = "none"
    /\ stops_in_row = 0
    /\ backlog = <<>>
    /\ conns = {}
    /\ delivered = <<>>
    /\ ws_outbox = [c \in WsClients |-> <<>>]
    /\ nframes = 0
    /\ last_call = NoCall
    /\ pushed = {}

Init ==
    /\ StreamerInit
    /\ obj = <<>> /\ enriched = <<>> /\ codec = NoCodec
    /\ only_stream = FALSE /\ TermStart /\ ChartsStart

\* is_running()
IsAlive(t) == thr[t].pc \notin {"unborn", "dead"}
is_running == stream_thread # 0 /\ IsAlive(stream_thread)


SetPc(t, p) == [thr EXCEPT ![t].pc = p]

\* The thread leaves _run_streaming_loop: by returning ("return") or through
\* the except clause of line 74 with the exception named by cause.
Exit(t, c) == [thr EXCEPT ![t] = [IdleThread EXCEPT !.pc = "dead", !.cause = c]]

----------------------------------------------------------------------------
\* The task table: a Python dict, kept as the sequence of its items in
\* insertion order.

\* task_id = f"{symbol}-{req_id}"
task_id(symbol, req_id) == symbol \o "-" \o req_id

Keys(d) == {d[i].id : i \in DOMAIN d}

\* d[k]
Item(d, k) == d[CHOOSE i \in DOMAIN d : d[i].id = k]

\* del d[k]
DelItem(d, k) == SelectSeq(d, LAMBDA e : e.id # k)

\* create_streaming_task without the test of line 207: the assignment
\* replaces the value an existing key holds.
AddTask_Overwrite(d, symbol, req_id, interval, cb, kwargs) ==
    LET e == [id |-> task_id(symbol, req_id), symbol |-> symbol,
              interval |-> interval, callback |-> cb, kwargs |-> kwargs]
    IN  IF e.id \in Keys(d)
        THEN [j \in DOMAIN d |-> IF d[j].id = e.id THEN e ELSE d[j]]
        ELSE Append(d, e)

\* One pass of the loop body of create_streaming_task.
AddTask(d, symbol, req_id, interval, cb, kwargs) ==
    IF task_id(symbol, req_id) \notin Keys(d)
    THEN Append(d, [id |-> task_id(symbol, req_id), symbol |-> symbol,
                    interval |-> interval, callback |-> cb, kwargs |-> kwargs])
    ELSE d

\* stop_streaming_task that drops every task of the symbol, whatever its
\* request id.
RemoveTask_BySymbol(d, symbol, req_id) ==
    SelectSeq(d, LAMBDA e : e.symbol # symbol)

\* One pass of the loop body of stop_streaming_task.
RemoveTask(d, symbol, req_id) ==
    IF task_id(symbol, req_id) \in Keys(d)
    THEN DelItem(d, task_id(symbol, req_id))
    ELSE d

\* for symbol in symbols: ... (create_streaming_task)
RECURSIVE create_tasks(_, _, _, _, _, _)
create_tasks(d, req_id, symbols, interval, cb, kwargs) ==
    IF symbols = <<>> THEN d
    ELSE create_tasks(AddTask(d, Head(symbols), req_id, interval, cb, kwargs),
                      req_id, Tail(symbols), interval, cb, kwargs)

\* for symbol in symbols: ... (stop_streaming_task)
RECURSIVE stop_tasks(_, _, _)
stop_tasks(d, req_id, symbols) ==
    IF symbols = <<>> THEN d
    ELSE stop_tasks(RemoveTask(d, Head(symbols), req_id), req_id, Tail(symbols))

\* The table holds the task that subscribe(req_id, [symbol]) created: the
\* entry under the pair's task id carries the pair's symbol.
HasEntry(d, symbol, req_id) ==
    \E i \in DOMAIN d : d[i].id = task_id(symbol, req_id) /\ d[i].symbol = symbol

\* An open dict iterator is invalidated by a mutation of the dict.
MarkDirty(d2) ==
    [t \in Threads |->
        IF thr[t].pc \in {"for_next", "sd_while", "sd_call"}
           /\ Keys(d2) # Keys(stream_tasks)
        THEN [thr[t] EXCEPT !.it_dirty = TRUE]
        ELSE thr[t]]

\* create_streaming_task(req_id, symbols, interval, callback, kwargs)
CreateStreamingTask(req_id, symbols, interval, cb, kwargs) ==
    LET d2 == create_tasks(stream_tasks, req_id, symbols, interval, cb, kwargs) IN
    /\ Len(d2) <= MaxTasks
    /\ stream_tasks' = d2
    /\ thr' = MarkDirty(d2)
    /\ last_call' = [op |-> "subscribe",
                     known |-> \E i \in DOMAIN symbols :
                                  HasEntry(stream_tasks, symbols[i], req_id)]
    /\ UNCHANGED <<cfgVars, extVars, callback, stream_thread, stream_socket,
                   stream_stop_event, wsVars, lifeVars, sockVars, delivered>>

\* stop_streaming_task(req_id, symbols)
StopStreamingTask(req_id, symbols) ==
    LET d2 == stop_tasks(stream_tasks, req_id, symbols) IN
    /\ stream_tasks' = d2
    /\ thr' = MarkDirty(d2)
    /\ last_call' = [op |-> "unsubscribe",
                     known |-> \E i \in DOMAIN symbols :
                                  HasEntry(stream_tasks, symbols[i], req_id)]
    /\ UNCHANGED <<cfgVars, extVars, callback, stream_thread, stream_socket,
                   stream_stop_event, wsVars, lifeVars, sockVars, delivered>>

----------------------------------------------------------------------------
\* Lifecycle.  start() and stop() are called one after the other, except
\* that stop() may be called while start() sits in run_forever().

\* start(): lines 229-233.  With use_websockets the caller goes on into
\* _start_ws_server (lines 155-157) and stays in run_forever().
Start ==
    /\ start_pc \in {"idle", "returned"}
    /\ stop_pc = "idle"
    /\ \E t \in Threads : ~IsAlive(t)
    /\ LET t == CHOOSE u \in Threads :
                   ~IsAlive(u) /\ \A v \in Threads : ~IsAlive(v) => u <= v
       IN  /\ thr' = [thr EXCEPT ![t] = [IdleThread EXCEPT !.pc = "created"]]
           /\ stream_thread' = t
    /\ IF use_websockets
       THEN ws_server' = "serving" /\ start_pc' = "run_forever"
       ELSE ws_server' = ws_server /\ start_pc' = "returned"
    /\ stops_in_row' = 0
    /\ stop_outcome' = "none"
    /\ UNCHANGED <<cfgVars, extVars, callback, stream_tasks, stream_socket,
                   stream_stop_event, connected_clients, ws_outbox, stop_pc,
                   sockVars, delivered, last_call>>

\* start() called on a receiver whose poll thread is not alive (never
\* started, or ended).
StartStopped ==
    /\ \A t \in Threads : ~IsAlive(t)
    /\ Start

\* stop(), lines 241-243: set the event, close the listening socket.
StopBegin ==
    /\ stop_pc = "idle"
    /\ start_pc \in {"idle", "returned", "run_forever"}
    /\ stream_stop_event' = TRUE
    /\ stream_socket' = IF use_socket THEN "closed" ELSE stream_socket
    /\ stop_pc' = "join"
    /\ stop_outcome' = "none"
    /\ UNCHANGED <<cfgVars, extVars, callback, stream_tasks, stream_thread, wsVars, thr,
                   start_pc, stops_in_row, sockVars, delivered, last_call>>

\* stop() that returns without joining the thread.
StopJoin_NoJoin ==
    /\ stop_pc = "join"
    /\ ws_server' = IF use_websockets /\ ws_server # "None" THEN "None" ELSE ws_server
    /\ stop_pc' = "idle"
    /\ stop_outcome' = "returned"
    /\ stops_in_row' = IF stops_in_row = 0 THEN 1 ELSE 2
    /\ UNCHANGED <<cfgVars, extVars, callback, stream_tasks, stream_thread, stream_socket,
                   stream_stop_event, connected_clients, ws_outbox, thr,
                   start_pc, sockVars, delivered, last_call>>

\* stop(), lines 244-252: join the thread when there is one, close the
\* websocket server when there is one, return.
StopJoin ==
    /\ stop_pc = "join"
    /\ stream_thread # 0 => ~IsAlive(stream_thread)
    /\ ws_server' = IF use_websockets /\ ws_server # "None" THEN "None" ELSE ws_server
    /\ stop_pc' = "idle"
    /\ stop_outcome' = "returned"
    /\ stops_in_row' = IF stops_in_row = 0 THEN 1 ELSE 2
    /\ UNCHANGED <<cfgVars, extVars, callback, stream_tasks, stream_thread, stream_socket,
                   stream_stop_event, connected_clients, ws_outbox, thr,
                   start_pc, sockVars, delivered, last_call>>

\* set_callback(callback)
SetCallback(cb) ==
    /\ callback' = cb
    /\ UNCHANGED <<cfgVars, extVars, stream_tasks, stream_thread, stream_socket,
                   stream_stop_event, wsVars, thr, lifeVars, sockVars,
                   delivered, last_call>>

----------------------------------------------------------------------------
\* The poll thread: _run_streaming_loop.

\* Line 61: stream_stop_event.clear(), then the branch on use_socket.
ThreadRun(t) ==
    /\ thr[t].pc = "created"
    /\ stream_stop_event' = FALSE
    /\ thr' = SetPc(t, IF use_socket THEN "bind" ELSE "while_task")
    /\ UNCHANGED <<cfgVars, extVars, callback, stream_tasks, stream_thread, stream_socket,
                   wsVars, lifeVars, sockVars, delivered, last_call>>

\* _stream_socket, lines 102-104: bind, listen, setblocking.  bind raises
\* OSError on a closed socket, on a socket that is bound already, and when
\* the port is taken; the error leaves _stream_socket (it is raised outside
\* the try) and is caught at line 74.
ThreadBind(t) ==
    /\ thr[t].pc = "bind"
    /\ \E port_free \in BOOLEAN :
          IF stream_socket = "fresh" /\ port_free
          THEN /\ stream_socket' = "listening"
               /\ thr' = SetPc(t, "while_sock")
          ELSE /\ stream_socket' = stream_socket
               /\ thr' = Exit(t, "OSError")
    /\ UNCHANGED <<cfgVars, extVars, callback, stream_tasks, stream_thread,
                   stream_stop_event, wsVars, lifeVars, sockVars, delivered,
                   last_call>>

\* Line 108: while not self.stream_stop_event.is_set()
ThreadWhileSock(t) ==
    /\ thr[t].pc = "while_sock"
    /\ thr' = IF stream_stop_event THEN Exit(t, "return") ELSE SetPc(t, "select")
    /\ UNCHANGED <<cfgVars, extVars, callback, stream_tasks, stream_thread, stream_socket,
                   stream_stop_event, wsVars, lifeVars, sockVars, delivered,
                   last_call>>

\* Lines 110-112: select with a 0.1 s timeout, then accept.  select on a
\* closed socket raises ValueError, which line 141 turns into RuntimeError.
ThreadSelect(t) ==
    /\ thr[t].pc = "select"
    /\ IF stream_socket = "closed"
       THEN thr' = Exit(t, "RuntimeError") /\ backlog' = backlog
       ELSE IF backlog # <<>>
            THEN /\ thr' = [thr EXCEPT ![t].pc = "recv", ![t].conn = Head(backlog)]
                 /\ backlog' = Tail(backlog)
            ELSE thr' = SetPc(t, "while_sock") /\ backlog' = backlog
    /\ UNCHANGED <<cfgVars, extVars, callback, stream_tasks, stream_thread, stream_socket,
                   stream_stop_event, wsVars, lifeVars, conns, nframes,
                   delivered, last_call>>

\* data.decode("utf-8")
decode(p) == IF p.utf8 THEN "str" ELSE "UnicodeDecodeError"

\* json.loads(...)
json_loads(p) == IF p.json THEN "obj" ELSE "JSONDecodeError"

\* _add_time_human: datetime.fromtimestamp(obj["time"], tz) raises TypeError
\* when the value is not a number.
add_time_human(p) == IF p.time = "text" THEN "TypeError" ELSE "enriched"

\* Lines 115-144 for the bytes of one connection: what happens to the frame.
\*   "closed"    the connection is closed and the loop continues
\*   "delivered" the frame reaches line 131
\*   "raised"    an exception reaches line 141 and RuntimeError is raised
FrameOutcome(p) ==
    IF p.bytes = "eof" THEN "closed"
    ELSE IF decode(p) = "UnicodeDecodeError" THEN "raised"
    ELSE IF json_loads(p) = "JSONDecodeError" THEN "closed"
    ELSE IF add_time_human(p) = "TypeError" THEN "raised"
    ELSE "delivered"

\* What line 141 catches for the frame.
FrameException(p) ==
    IF decode(p) = "UnicodeDecodeError" THEN "UnicodeDecodeError" ELSE "TypeError"

\* Delivery that keeps calling the callback the receiver was built with,
\* whatever set_callback stored since.
Deliver_Stale(f) ==
    IF callback # "None"
    THEN Append(delivered, [frame |-> f, cb |-> "cb1"])
    ELSE delivered

\* self.callback(formatted_data), when a callback is set.
Deliver(f) ==
    IF callback # "None"
    THEN Append(delivered, [frame |-> f, cb |-> callback])
    ELSE delivered

\* Lines 115-144: recv on the accepted connection (a blocking socket: the
\* step waits until the peer has sent or closed) returns the bytes p, which
\* are parsed, enriched and delivered.  The consumer callback returns or
\* raises; what it raises is caught at line 141 like the frame's exceptions.
ThreadRecv(t, p) ==
    LET c == thr[t].conn
        o == FrameOutcome(p)
    IN
    /\ thr[t].pc = "recv"
    /\ ~c.quiet
    /\ \E callback_ok \in IF o = "delivered" /\ callback # "None"
                          THEN BOOLEAN ELSE {TRUE} :
          thr' = IF o = "raised"
                 THEN Exit(t, FrameException(p))
                 ELSE IF ~callback_ok
                 THEN Exit(t, "CallbackError")
                 ELSE [thr EXCEPT ![t].pc = "while_sock", ![t].conn = NoConn]
    /\ conns' = IF o = "closed" THEN conns ELSE conns \cup {c.id}
    /\ delivered' = IF o = "delivered" THEN Deliver(c.id) ELSE delivered
    /\ UNCHANGED <<cfgVars, extVars, callback, stream_tasks, stream_thread, stream_socket,
                   stream_stop_event, wsVars, lifeVars, backlog, nframes,
                   last_call>>

\* Line 115 where the accepted socket took over the listening socket's
\* non-blocking mode (Windows): recv on a quiet connection raises error
\* 10035, which line 136 ignores; the connection is neither read nor closed.
ThreadRecvWouldBlock(t) ==
    /\ thr[t].pc = "recv"
    /\ thr[t].conn.quiet
    /\ thr' = [thr EXCEPT ![t].pc = "while_sock", ![t].conn = NoConn]
    /\ conns' = conns \cup {thr[t].conn.id}
    /\ UNCHANGED <<cfgVars, extVars, callback, stream_tasks, stream_thread, stream_socket,
                   stream_stop_event, wsVars, lifeVars, backlog, nframes,
                   delivered, last_call>>

\* Line 65: while not self.stream_stop_event.is_set(); line 66: the iterator
\* over self.stream_tasks.items() is made and gives its first item, or is
\* exhausted at once.  The compiled loop takes both steps without letting
\* another thread run.
ThreadWhileTask(t) ==
    /\ thr[t].pc = "while_task"
    /\ thr' = IF stream_stop_event
              THEN Exit(t, "return")
              ELSE IF stream_tasks = <<>>
              THEN SetPc(t, "idle_wait")
              ELSE [thr EXCEPT ![t].pc = "sd_while",
                               ![t].it_used = Len(stream_tasks),
                               ![t].it_pos = 1,
                               ![t].it_dirty = FALSE,
                               ![t].task = stream_tasks[1]]
    /\ UNCHANGED <<cfgVars, extVars, callback, stream_tasks, stream_thread, stream_socket,
                   stream_stop_event, wsVars, lifeVars, sockVars, delivered,
                   last_call>>

\* Line 73: self.stream_stop_event.wait(0.01)
ThreadIdleWait(t) ==
    /\ thr[t].pc = "idle_wait"
    /\ thr' = SetPc(t, "while_task")
    /\ UNCHANGED <<cfgVars, extVars, callback, stream_tasks, stream_thread, stream_socket,
                   stream_stop_event, wsVars, lifeVars, sockVars, delivered,
                   last_call>>

\* Line 66, after _stream_data has returned: the iterator's next().  A dict
\* whose size changed since the iterator was made raises RuntimeError
\* ("dictionary changed size during iteration"), caught at line 74; one
\* mutated back to the same size either raises ("dictionary keys changed
\* during iteration") or goes on at its position.
ThreadForNext(t) ==
    /\ thr[t].pc = "for_next"
    /\ \E keys_error \in BOOLEAN :
        LET me == thr[t] IN
        thr' = IF Len(stream_tasks) # me.it_used
               THEN Exit(t, "RuntimeError_dict_changed_size")
               ELSE IF me.it_dirty /\ keys_error
               THEN Exit(t, "RuntimeError_dict_keys_changed")
               ELSE IF me.it_pos >= Len(stream_tasks)
               THEN [thr EXCEPT ![t] = [IdleThread EXCEPT !.pc = "idle_wait"]]
               ELSE [thr EXCEPT ![t].pc = "sd_while",
                                ![t].it_pos = me.it_pos + 1,
                                ![t].task = stream_tasks[me.it_pos + 1]]
    /\ UNCHANGED <<cfgVars, extVars, callback, stream_tasks, stream_thread, stream_socket,
                   stream_stop_event, wsVars, lifeVars, sockVars, delivered,
                   last_call>>

\* _stream_data, line 170: while not self.stream_stop_event.is_set()
ThreadSdWhile(t) ==
    /\ thr[t].pc = "sd_while"
    /\ thr' = IF stream_stop_event
              THEN [thr EXCEPT ![t].pc = "for_next", ![t].task = NoTask]
              ELSE SetPc(t, "sd_call")
    /\ UNCHANGED <<cfgVars, extVars, callback, stream_tasks, stream_thread, stream_socket,
                   stream_stop_event, wsVars, lifeVars, sockVars, delivered,
                   last_call>>

\* _stream_data, lines 172-179: the producer returns data, which goes to the
\* consumer callback, and the loop waits for the interval; or the producer
\* raises and the loop breaks.
ThreadSdCall(t) ==
    /\ thr[t].pc = "sd_call"
    /\ \E producer_ok \in BOOLEAN :
        thr' = IF producer_ok
               THEN SetPc(t, "sd_while")
               ELSE [thr EXCEPT ![t].pc = "for_next", ![t].task = NoTask]
    /\ UNCHANGED <<cfgVars, extVars, callback, stream_tasks, stream_thread, stream_socket,
                   stream_stop_event, wsVars, lifeVars, sockVars, delivered,
                   last_call>>

ThreadStep(t) ==
    \/ ThreadRun(t)
    \/ ThreadBind(t)
    \/ ThreadWhileSock(t)
    \/ ThreadSelect(t)
    \/ \E p \in Payloads : ThreadRecv(t, p)
    \/ ThreadRecvWouldBlock(t)
    \/ ThreadWhileTask(t)
    \/ ThreadIdleWait(t)
    \/ ThreadForNext(t)
    \/ ThreadSdWhile(t)
    \/ ThreadSdCall(t)

----------------------------------------------------------------------------
\* The environment: the terminal's streaming connections and the websocket
\* clients.

\* The terminal connects to the listening socket (listen(10)); quiet: it
\* has sent nothing yet.
PeerConnect(quiet) ==
    /\ stream_socket = "listening"
    /\ nframes < MaxFrames
    /\ Len(backlog) < 10
    /\ nframes' = nframes + 1
    /\ backlog' = Append(backlog, [id |-> nframes + 1, quiet |-> quiet])
    /\ UNCHANGED <<cfgVars, extVars, callback, stream_tasks, stream_thread, stream_socket,
                   stream_stop_event, wsVars, thr, lifeVars, conns, delivered,
                   last_call>>

\* A quiet peer whose connection the thread is reading sends or closes.
PeerSend(t) ==
    /\ thr[t].pc = "recv"
    /\ thr[t].conn.quiet
    /\ thr' = [thr EXCEPT ![t].conn.quiet = FALSE]
    /\ UNCHANGED <<cfgVars, extVars, callback, stream_tasks, stream_thread, stream_socket,
                   stream_stop_event, wsVars, lifeVars, sockVars, delivered,
                   last_call>>

\* The peer sends a further frame on a connection the receiver accepted and
\* did not close.
PeerPush(c) ==
    /\ c \in conns
    /\ c \notin pushed
    /\ pushed' = pushed \cup {c}
    /\ UNCHANGED <<cfgVars, enrichVars, codec, termVars, chartVars, callback, stream_tasks,
                   stream_thread, stream_socket, stream_stop_event, wsVars, thr,
                   lifeVars, sockVars, delivered, last_call>>

\* ws_handler, line 192: a websocket client connects while the event loop
\* serves.
WsConnect(c) ==
    /\ ws_server = "serving"
    /\ start_pc = "run_forever"
    /\ c \notin connected_clients
    /\ connected_clients' = connected_clients \cup {c}
    /\ UNCHANGED <<cfgVars, extVars, callback, stream_tasks, stream_thread, stream_socket,
                   stream_stop_event, ws_server, ws_outbox, thr, lifeVars,
                   sockVars, delivered, last_call>>

\* ws_handler, lines 198-199: the client's connection ends.
WsDisconnect(c) ==
    /\ c \in connected_clients
    /\ connected_clients' = connected_clients \ {c}
    /\ UNCHANGED <<cfgVars, extVars, callback, stream_tasks, stream_thread, stream_socket,
                   stream_stop_event, ws_server, ws_outbox, thr, lifeVars,
                   sockVars, delivered, last_call>>

\* The receiver: every operation.  The task table is read by the task
\* polling branch only (lines 64-73), so the task-table calls are made when
\* use_socket is off, for the tasks of PollSymbols and PollReqIds.  start()
\* is called when no poll thread is alive; RestartSpec has the start() calls
\* made on a running receiver.
Next == \/ /\ ~use_socket
           /\ \E r \in PollReqIds, sym \in PollSymbols, i \in PollIntervals,
                 p \in Producers, k \in Kwargs :
                 CreateStreamingTask(r, <<sym>>, i, p, k)
        \/ /\ ~use_socket
           /\ \E r \in PollReqIds, sym \in PollSymbols :
                 StopStreamingTask(r, <<sym>>)
        \/ StartStopped
        \/ StopBegin
        \/ StopJoin
        \/ \E cb \in Callbacks : SetCallback(cb)
        \/ \E t \in Threads : ThreadStep(t)
        \/ \E quiet \in BOOLEAN : PeerConnect(quiet)
        \/ \E t \in Threads : PeerSend(t)
        \/ \E c \in WsClients : WsConnect(c)
        \/ \E c \in WsClients : WsDisconnect(c)

Spec == Init /\ [][Next]_vars

\* The task table alone: subscribe and unsubscribe calls with every symbols
\* list and request id of the alphabets, on a receiver that was not started.
TaskInit == Init /\ ~use_socket /\ ~use_websockets /\ callback = "None"

TaskNext ==
    \/ \E r \in ReqIds, ss \in SymbolLists, i \in Intervals,
          p \in Producers, k \in Kwargs : CreateStreamingTask(r, ss, i, p, k)
    \/ \E r \in ReqIds, ss \in SymbolLists : StopStreamingTask(r, ss)

TaskSpec == TaskInit /\ [][TaskNext]_vars

\* The receiver in socket mode after start(), with a peer that goes on
\* sending on the connections the receiver keeps.
RecvInit == Init /\ use_socket /\ ~use_websockets

\* The steps of a thread that runs _stream_socket.
ThreadSockStep(t) ==
    \/ ThreadRun(t)
    \/ ThreadBind(t)
    \/ ThreadWhileSock(t)
    \/ ThreadSelect(t)
    \/ \E p \in Payloads : ThreadRecv(t, p)
    \/ ThreadRecvWouldBlock(t)

RecvNext ==
    \/ StartStopped
    \/ \E t \in Threads : ThreadSockStep(t)
    \/ \E quiet \in BOOLEAN : PeerConnect(quiet)
    \/ \E t \in Threads : PeerSend(t)
    \/ \E c \in 1..MaxFrames : PeerPush(c)

RecvSpec == RecvInit /\ [][RecvNext]_vars

\* The lifecycle calls in any order, start() on a running receiver
\* included, on a receiver built with a callback and without websockets;
\* in task mode one task is subscribed.
RestartInit == Init /\ ~use_websockets /\ callback = "cb1"

RestartNext ==
    \/ Start
    \/ StopBegin
    \/ StopJoin
    \/ \E t \in Threads : ThreadStep(t)
    \/ \E quiet \in BOOLEAN : PeerConnect(quiet)
    \/ \E t \in Threads : PeerSend(t)
    \/ /\ ~use_socket
       /\ stream_tasks = <<>>
       /\ CreateStreamingTask("1", <<"A">>, 1, "producer", "{}")

RestartSpec == RestartInit /\ [][RestartNext]_vars

\* The steps the scheduler owes a thread.  The return of recv with error
\* 10035 is not among them: recv on the accepted connection returns at once
\* only where the accepted socket inherits the listening socket's
\* non-blocking mode; where it is a blocking socket (Linux) the thread stays
\* in recv until the peer sends or closes.
ThreadProgress(t) ==
    \/ ThreadRun(t)
    \/ ThreadBind(t)
    \/ ThreadWhileSock(t)
    \/ ThreadSelect(t)
    \/ \E p \in Payloads : ThreadRecv(t, p)
    \/ ThreadWhileTask(t)
    \/ ThreadIdleWait(t)
    \/ ThreadForNext(t)
    \/ ThreadSdWhile(t)
    \/ ThreadSdCall(t)

\* The receiver with its scheduling: a thread that can take a step
\* eventually takes one, and a stop() whose join can return returns.  The
\* terminal and the websocket clients are under no obligation.
FairSpec == Spec /\ (\A t \in Threads : WF_vars(ThreadProgress(t))) /\ WF_vars(StopJoin)

RecvFairSpec == RecvSpec /\ (\A t \in Threads : WF_vars(ThreadProgress(t)))

----------------------------------------------------------------------------
\* _add_time_human on parsed JSON.  A JSON value is a record of one shape:
\* kind says which of the fields holds it.  A dict (a Python dict) is the
\* sequence of its items in insertion order.

MaxNodes == 5       \* nodes (scalars, dicts, lists) of one parsed record

JsonNum(n)   == [kind |-> "num",  num |-> n, str |-> "", dict |-> <<>>, list |-> <<>>]
JsonStr(s)   == [kind |-> "str",  num |-> 0, str |-> s,  dict |-> <<>>, list |-> <<>>]
JsonDict(es) == [kind |-> "dict", num |-> 0, str |-> "", dict |-> es,   list |-> <<>>]
JsonList(xs) == [kind |-> "list", num |-> 0, str |-> "", dict |-> <<>>, list |-> xs]

\* Epoch values: the epoch, the last second of a day, a leap day, and the
\* value of the documentation's example.
Epochs == {0, 86399, 951782400, 1700000000}

\* The records with exactly n nodes: scalars, dicts with a "time" item (an
\* epoch number) and/or one other item "v", in either order, and lists.
RECURSIVE JsonOfSize(_), ItemsOfSize(_)
JsonOfSize(n) ==
    IF n < 1 THEN {}
    ELSE (IF n = 1 THEN {JsonNum(7), JsonStr("x")} ELSE {})
         \cup {JsonList(xs) : xs \in ItemsOfSize(n - 1)}
         \cup (IF n = 1 THEN {JsonDict(<<>>)} ELSE {})
         \cup (IF n = 2
               THEN {JsonDict(<<[key |-> "time", val |-> JsonNum(e)]>>) : e \in Epochs}
               ELSE {})
         \cup {JsonDict(<<[key |-> "v", val |-> c]>>) : c \in JsonOfSize(n - 1)}
         \cup UNION {{JsonDict(<<[key |-> "time", val |-> JsonNum(e)],
                                 [key |-> "v", val |-> c]>>),
                      JsonDict(<<[key |-> "v", val |-> c],
                                 [key |-> "time", val |-> JsonNum(e)]>>)} :
                     e \in Epochs, c \in JsonOfSize(n - 2)}

\* The sequences of records with n nodes in all.
ItemsOfSize(n) ==
    IF n = 0 THEN {<<>>}
    ELSE UNION {{<<h>> \o t : h \in JsonOfSize(k), t \in ItemsOfSize(n - k)} :
                k \in 1..n}

JsonValues == UNION {JsonOfSize(n) : n \in 1..MaxNodes}

DictKeys(es) == {es[i].key : i \in DOMAIN es}

\* obj[k]
DictGet(es, k) == es[CHOOSE i \in DOMAIN es : es[i].key = k].val

\* obj[k] = v: replaces the value of a present key in place, else appends.
DictSet(es, k, v) ==
    IF k \in DictKeys(es)
    THEN [i \in DOMAIN es |-> IF es[i].key = k THEN [key |-> k, val |-> v] ELSE es[i]]
    ELSE Append(es, [key |-> k, val |-> v])

\* Two decimal digits, four decimal digits (strftime %m, %d, %H, %M, %S, %Y).
Pad2(n) == IF n < 10 THEN "0" \o ToString(n) ELSE ToString(n)
Pad4(n) == IF n < 10 THEN "000" \o ToString(n)
           ELSE IF n < 100 THEN "00" \o ToString(n)
           ELSE IF n < 1000 THEN "0" \o ToString(n)
           ELSE ToString(n)

\* datetime.fromtimestamp(t, UTC).strftime("%Y-%m-%d %H:%M:%S") for t >= 0:
\* the proleptic Gregorian date of day t \div 86400 since 1970-01-01 and the
\* time of day t % 86400.
strftime_utc(t) ==
    LET days == t \div 86400
        secs == t % 86400
        z    == days + 719468
        era  == z \div 146097
        doe  == z - era * 146097
        yoe  == (doe - doe \div 1460 + doe \div 36524 - doe \div 146096) \div 365
        doy  == doe - (365 * yoe + yoe \div 4 - yoe \div 100)
        mp   == (5 * doy + 2) \div 153
        d    == doy - (153 * mp + 2) \div 5 + 1
        m    == IF mp < 10 THEN mp + 3 ELSE mp - 9
        y    == yoe + era * 400 + (IF m <= 2 THEN 1 ELSE 0)
    IN  Pad4(y) \o "-" \o Pad2(m) \o "-" \o Pad2(d) \o " " \o
        Pad2(secs \div 3600) \o ":" \o Pad2((secs % 3600) \div 60) \o ":" \o
        Pad2(secs % 60)

\* _add_time_human that enriches the record itself and does not go into its
\* values and items.
AddTimeHuman_TopOnly(o) ==
    IF o.kind = "dict" /\ "time" \in DictKeys(o.dict)
    THEN JsonDict(DictSet(o.dict, "time_human",
                          JsonStr(strftime_utc(DictGet(o.dict, "time").num))))
    ELSE o

\* _add_time_human(obj), lines 85-94, as the value obj holds afterwards.
RECURSIVE AddTimeHuman(_)
AddTimeHuman(o) ==
    IF o.kind = "dict"
    THEN LET es == IF "time" \in DictKeys(o.dict)
                   THEN DictSet(o.dict, "time_human",
                                JsonStr(strftime_utc(DictGet(o.dict, "time").num)))
                   ELSE o.dict
         IN  JsonDict([i \in DOMAIN es |->
                          [key |-> es[i].key, val |-> AddTimeHuman(es[i].val)]])
    ELSE IF o.kind = "list"
    THEN JsonList([i \in DOMAIN o.list |-> AddTimeHuman(o.list[i])])
    ELSE o

\* self._add_time_human(json_data), line 128.
Enrich ==
    /\ obj # <<>>
    /\ enriched = <<>>
    /\ enriched' = <<AddTimeHuman(obj[1])>>
    /\ UNCHANGED <<streamerVars, obj, codec, termVars, chartVars>>

\* Enrichment alone: every record of JsonValues is handed to _add_time_human.
EnrichInit == StreamerInit /\ ~use_socket /\ ~use_websockets /\ callback = "None"
              /\ obj \in {<<v>> : v \in JsonValues} /\ enriched = <<>>
              /\ codec = NoCodec /\ only_stream = FALSE /\ TermStart /\ ChartsStart

EnrichNext == Enrich

EnrichSpec == EnrichInit /\ [][EnrichNext]_vars

----------------------------------------------------------------------------
\* The terminal side (MQL5).  An MQL5 string is the sequence of its
\* characters; "" is <<>>.

MaxParams == 2      \* parameters of one encoded message

\* StringSplit(value, separator, result): the substrings between the
\* separators, empty ones included; an empty value gives no substring.
RECURSIVE StringSplit(_, _)
StringSplit(value, separator) ==
    IF value = <<>> THEN <<>>
    ELSE IF \A i \in DOMAIN value : value[i] # separator THEN <<value>>
    ELSE LET i    == CHOOSE j \in DOMAIN value :
                        /\ value[j] = separator
                        /\ \A k \in 1..(j - 1) : value[k] # separator
             rest == SubSeq(value, i + 1, Len(value))
         IN  <<SubSeq(value, 1, i - 1)>> \o
             (IF rest = <<>> THEN << <<>> >> ELSE StringSplit(rest, separator))

\* StringJoin(arr, delimiter), utils.mqh
RECURSIVE StringJoin(_, _)
StringJoin(arr, delimiter) ==
    IF arr = <<>> THEN <<>>
    ELSE IF Len(arr) = 1 THEN arr[1]
    ELSE arr[1] \o delimiter \o StringJoin(Tail(arr), delimiter)

\* MakeMessage(command, subCommand, parameters), utils.mqh
MakeMessage(command, subCommand, parameters) ==
    command \o <<"^">> \o subCommand \o <<"^">> \o StringJoin(parameters, <<"^">>)

\* ParseRequest(request, command, subCommand, parameters).  With fewer than
\* two parts the function stores into parameters[0] of the caller's dynamic
\* array, whose size is 0: the MQL5 runtime stops the program with the
\* critical error "array out of range" (crash).
ParseRequest(request) ==
    LET parts == StringSplit(request, "^") IN
    IF Len(parts) < 2
    THEN [crash |-> TRUE, command |-> <<>>, subCommand |-> <<>>, parameters |-> <<>>]
    ELSE [crash |-> FALSE, command |-> parts[1], subCommand |-> parts[2],
          parameters |-> SubSeq(parts, 3, Len(parts))]

\* Command codes and the literals of the handlers.
F(a, b, c) == <<"F", a, b, c>>
One        == <<"1">>
Two        == <<"2">>
ERROR      == <<"E", "R", "R", "O", "R">>
UNKNOWN_REQUEST ==
    <<"U", "N", "K", "N", "O", "W", "N", "_", "R", "E", "Q", "U", "E", "S", "T">>

\* The (command, subCommand) pairs ProcessClient dispatches on.
DispatchPairs ==
    {<<F("0", "0", "0"), One>>, <<F("0", "0", "1"), One>>, <<F("0", "0", "2"), One>>,
     <<F("0", "0", "3"), Two>>, <<F("0", "0", "7"), One>>, <<F("0", "0", "4"), Two>>,
     <<F("0", "0", "8"), Two>>, <<F("0", "1", "1"), One>>, <<F("0", "1", "2"), One>>,
     <<F("0", "2", "0"), Two>>, <<F("0", "0", "5"), One>>}

\* Parameter values without a delimiter character, the empty string included.
ParamValues == {<<>>, <<"a">>}
ParamLists  == UNION {[1..n -> ParamValues] : n \in 0..MaxParams}

\* A message is encoded with MakeMessage, and the line is decoded with
\* ParseRequest.
CodecEncode ==
    /\ codec.stage = "input"
    /\ codec' = [codec EXCEPT !.stage = "line",
                     !.line = MakeMessage(codec.command, codec.subCommand,
                                          codec.parameters)]
    /\ UNCHANGED <<streamerVars, enrichVars, termVars, chartVars>>

CodecDecode ==
    /\ codec.stage = "line"
    /\ codec' = [codec EXCEPT !.stage = "decoded", !.parsed = ParseRequest(codec.line)]
    /\ UNCHANGED <<streamerVars, enrichVars, termVars, chartVars>>

CodecInit ==
    /\ StreamerInit /\ ~use_socket /\ ~use_websockets /\ callback = "None"
    /\ obj = <<>> /\ enriched = <<>>
    /\ only_stream = FALSE /\ TermStart /\ ChartsStart
    /\ \E pair \in DispatchPairs, ps \in ParamLists :
          codec = [NoCodec EXCEPT !.stage = "input", !.command = pair[1],
                                  !.subCommand = pair[2], !.parameters = ps]

CodecNext == CodecEncode \/ CodecDecode

CodecSpec == CodecInit /\ [][CodecNext]_vars

----------------------------------------------------------------------------
\* The terminal's handlers (rest-handlers.mqh, stream-handlers.mqh).  The
\* values the terminal's API returns (prices, names, times) are the
\* one-character string Val; env holds the outcomes of the API calls a
\* handler branches on.

Val  == <<"v">>
Params(n) == [i \in 1..n |-> Val]
OK   == <<"O", "K">>
YES  == <<"Y", "E", "S">>
NO   == <<"N", "O">>
CONNECTED    == <<"C", "O", "N", "N", "E", "C", "T", "E", "D">>
DISCONNECTED == <<"D", "I", "S">> \o CONNECTED

\* env.upper_ok: StringToUpper succeeds; env.tick_ok: SymbolInfoTick
\* succeeds; env.answer: the outcome of SymbolSelect, of the trade-mode test
\* and of TERMINAL_CONNECTED.  A handler consults at most one of upper_ok
\* and answer, and tick_ok only after upper_ok.
QuietEnv == [upper_ok |-> TRUE, tick_ok |-> TRUE, answer |-> TRUE]
Envs == {QuietEnv,
         [QuietEnv EXCEPT !.upper_ok = FALSE],
         [QuietEnv EXCEPT !.tick_ok = FALSE],
         [QuietEnv EXCEPT !.answer = FALSE]}

\* StringToUpper on the characters of the symbols.
ToUpper(symbol) == [i \in DOMAIN symbol |-> IF symbol[i] = "e" THEN "E" ELSE symbol[i]]

GetBrokerServerTime      == MakeMessage(F("0", "0", "5"), One, Params(1))
GetCheckConnection       == MakeMessage(F("0", "0", "0"), One, <<OK>>)
GetStaticAccountInfo     == MakeMessage(F("0", "0", "1"), <<"1", "0">>, Params(10))
GetDynamicAccountInfo    == MakeMessage(F("0", "0", "2"), <<"6">>, Params(6))
GetInstrumentInfo(symbol) == MakeMessage(F("0", "0", "3"), <<"3">>, Params(11))
GetBrokerInstrumentNames == MakeMessage(F("0", "0", "7"), One, Params(1))
CheckMarketWatch(symbol, env) ==
    MakeMessage(F("0", "0", "4"), One, <<IF env.answer THEN YES ELSE NO>>)
CheckTradingAllowed(symbol, env) ==
    MakeMessage(F("0", "0", "8"), One, <<IF env.answer THEN YES ELSE NO>>)
CheckTerminalServerConnection(env) ==
    MakeMessage(F("0", "1", "1"), One,
                <<IF env.answer THEN CONNECTED ELSE DISCONNECTED>>)
CheckTerminalType        == MakeMessage(F("0", "1", "2"), One, Params(1))

\* GetLastTickInfo whose error reply also names the symbol.
GetLastTickInfo_ErrorWithSymbol(symbol, env) ==
    IF ~env.upper_ok \/ ~env.tick_ok
    THEN MakeMessage(F("0", "2", "0"), One, <<ERROR, symbol>>)
    ELSE MakeMessage(F("0", "2", "0"), <<"6">>, Params(7))

\* GetLastTickInfo(symbol), rest-handlers.mqh lines 104-130
GetLastTickInfo(symbol, env) ==
    IF ~env.upper_ok THEN MakeMessage(F("0", "2", "0"), One, <<ERROR>>)
    ELSE IF env.tick_ok THEN MakeMessage(F("0", "2", "0"), <<"6">>, Params(7))
    ELSE MakeMessage(F("0", "2", "0"), One, <<ERROR>>)

\* GetLatestTick(symbol), stream-handlers.mqh
GetLatestTick(symbol, env) ==
    IF env.tick_ok THEN MakeMessage(F("0", "2", "0"), <<"6">>, Params(5))
    ELSE MakeMessage(F("0", "2", "0"), One, <<ERROR>>)

\* GetLatestBar(symbol, currentBarTime), stream-handlers.mqh
GetLatestBar(symbol) == MakeMessage(F("0", "2", "1"), <<"6">>, Params(6))

\* A selection in which GetInstrumentInfo puts its symbol into Market Watch
\* as well.
SymbolSelected_InfoToo(command, subCommand, parameters, env) ==
    IF parameters = <<>> \/ ~env.answer THEN {}
    ELSE IF command \in {F("0", "0", "3"), F("0", "0", "4")} /\ subCommand = Two
    THEN {parameters[1]}
    ELSE IF command = F("0", "2", "0") /\ subCommand = Two /\ env.upper_ok
    THEN {ToUpper(parameters[1])}
    ELSE {}

\* The symbols a dispatched handler puts into Market Watch with
\* SymbolSelect(symbol, true): CheckMarketWatch and GetLastTickInfo.
SymbolSelected(command, subCommand, parameters, env) ==
    IF parameters = <<>> \/ ~env.answer THEN {}
    ELSE IF command = F("0", "0", "4") /\ subCommand = Two THEN {parameters[1]}
    ELSE IF command = F("0", "2", "0") /\ subCommand = Two /\ env.upper_ok
    THEN {ToUpper(parameters[1])}
    ELSE {}

UnknownReply == MakeMessage(F("9", "9", "9"), One, <<UNKNOWN_REQUEST>>)

Reply(message) == [crash |-> FALSE, response |-> message]
\* Reading parameters[0] of an array of size 0: critical error
\* "array out of range", the program is stopped.
OutOfRange == [crash |-> TRUE, response |-> <<>>]

\* Dispatch that looks at the command code only.
Dispatch_CommandOnly(command, subCommand, parameters, env) ==
    IF command = F("0", "0", "0") THEN Reply(GetCheckConnection)
    ELSE IF command = F("0", "0", "5") THEN Reply(GetBrokerServerTime)
    ELSE Reply(UnknownReply)

\* ProcessClient, README.md lines 303-352: the chain of tests on
\* (command, subCommand), in the order of the source.
Dispatch(command, subCommand, parameters, env) ==
    IF command = F("0", "0", "0") /\ subCommand = One THEN Reply(GetCheckConnection)
    ELSE IF command = F("0", "0", "1") /\ subCommand = One THEN Reply(GetStaticAccountInfo)
    ELSE IF command = F("0", "0", "2") /\ subCommand = One THEN Reply(GetDynamicAccountInfo)
    ELSE IF command = F("0", "0", "3") /\ subCommand = Two
    THEN IF parameters = <<>> THEN OutOfRange
         ELSE Reply(GetInstrumentInfo(parameters[1]))
    ELSE IF command = F("0", "0", "7") /\ subCommand = One THEN Reply(GetBrokerInstrumentNames)
    ELSE IF command = F("0", "0", "4") /\ subCommand = Two
    THEN IF parameters = <<>> THEN OutOfRange
         ELSE Reply(CheckMarketWatch(parameters[1], env))
    ELSE IF command = F("0", "0", "8") /\ subCommand = Two
    THEN IF parameters = <<>> THEN OutOfRange
         ELSE Reply(CheckTradingAllowed(parameters[1], env))
    ELSE IF command = F("0", "1", "1") /\ subCommand = One
    THEN Reply(CheckTerminalServerConnection(env))
    ELSE IF command = F("0", "1", "2") /\ subCommand = One THEN Reply(CheckTerminalType)
    ELSE IF command = F("0", "2", "0") /\ subCommand = Two
    THEN IF parameters = <<>> THEN OutOfRange
         ELSE Reply(GetLastTickInfo(parameters[1], env))
    ELSE IF command = F("0", "0", "5") /\ subCommand = One THEN Reply(GetBrokerServerTime)
    ELSE Reply(UnknownReply)

----------------------------------------------------------------------------
\* The terminal's servers (MT5Ext.mqh, printed in README.md; MT5Ext.mq5).

MaxRestConns   == 2     \* connections made to the REST (command) socket
MaxStreamConns == 1     \* connections made to the terminal's streaming socket
MaxBarTime     == 1     \* bar open times

\* The chart symbol (_Symbol) and a symbol in lower case.
ChartSymbol == <<"E">>
LowerSymbol == <<"e">>

\* The dispatch entries whose handler is given parameters[0].
SymbolPairs == {<<F("0", "0", "3"), Two>>, <<F("0", "0", "4"), Two>>,
                <<F("0", "0", "8"), Two>>, <<F("0", "2", "0"), Two>>}

\* The bytes a command client sends: every dispatched pair with a symbol
\* parameter, the pairs of the symbol handlers and the connection check with
\* no parameter field at all, a last
\* tick request in lower case, pairs that match no entry (unknown code, known
\* code with another sub code, a prefix and an extension of a known code) and
\* a line without delimiter.
Requests ==
    {MakeMessage(p[1], p[2], <<ChartSymbol>>) : p \in DispatchPairs}
    \cup {p[1] \o <<"^">> \o p[2] : p \in SymbolPairs \cup {<<F("0", "0", "0"), One>>}}
    \cup {MakeMessage(F("0", "2", "0"), Two, <<LowerSymbol>>),
          MakeMessage(<<"Z", "Z", "Z", "Z">>, One, <<>>),
          MakeMessage(F("0", "0", "0"), Two, <<>>),
          MakeMessage(F("0", "0", "3"), One, <<ChartSymbol>>),
          MakeMessage(<<"F", "0", "0">>, One, <<>>),
          MakeMessage(<<"F", "0", "0", "0", "0">>, One, <<>>),
          F("0", "0", "0")}

\* The command codes of the handlers of rest-handlers.mqh lines 132-430:
\* last N ticks, actual, specific and last N bars, pending orders, open
\* positions, closed positions (all, windowed), deleted orders (windowed, all).
HistoryCodes == {F("0", "2", "1"), F("0", "4", "1"), F("0", "4", "5"),
                 F("0", "4", "2"), F("0", "6", "0"), F("0", "6", "1"),
                 F("0", "6", "3"), F("0", "6", "2"), F("0", "6", "4"),
                 F("0", "6", "5")}

\* Requests for the commands of the registry: the dispatched pairs, and the
\* codes above with either sub code, each with a symbol parameter.
RegistryRequests ==
    {MakeMessage(p[1], p[2], <<ChartSymbol>>) : p \in DispatchPairs}
    \cup {MakeMessage(c, sub, <<ChartSymbol>>) : c \in HistoryCodes, sub \in {One, Two}}

\* ProcessClient for the bytes Receive gave: nothing is done for no bytes;
\* else the request is parsed and dispatched.
ProcessClient(request, env) ==
    IF request = <<>>
    THEN [served |-> FALSE, crash |-> FALSE, response |-> <<>>, select |-> {}]
    ELSE LET pr == ParseRequest(request) IN
         IF pr.crash
         THEN [served |-> TRUE, crash |-> TRUE, response |-> <<>>, select |-> {}]
         ELSE LET d == Dispatch(pr.command, pr.subCommand, pr.parameters, env) IN
              [served |-> TRUE, crash |-> d.crash, response |-> d.response,
               select |-> IF d.crash THEN {}
                          ELSE SymbolSelected(pr.command, pr.subCommand,
                                              pr.parameters, env)]

\* ProcessClient over the requests and terminal answers of the model.
Processed == [request \in Requests \cup RegistryRequests \cup {<<>>}, env \in Envs |->
                 ProcessClient(request, env)]

\* The terminal's answers that matter to a request: the answers of a call
\* that succeeds, and every other answer under which ProcessClient does
\* something else.
Answers == [request \in Requests \cup RegistryRequests \cup {<<>>} |->
               {env \in Envs : \/ env = QuietEnv
                               \/ Processed[request, env] # Processed[request, QuietEnv]}]

\* A slot of streamingClients that holds NULL.
NullClient == [id |-> 0, connected |-> FALSE]

\* The slots up to the first one that is NULL or not connected.
RECURSIVE UpToFirstDead(_)
UpToFirstDead(clients) ==
    IF clients = <<>> \/ Head(clients) = NullClient \/ ~Head(clients).connected
    THEN <<>>
    ELSE <<Head(clients)>> \o UpToFirstDead(Tail(clients))

\* A broadcast that ends at the first slot it cannot send to.
BroadcastStreamData_StopAtDead(data) ==
    LET live == UpToFirstDead(streamingClients) IN
    [i \in DOMAIN live |-> [chan |-> "stream", to |-> live[i].id, msg |-> data]]

\* BroadcastStreamData(data), README.md lines 394-402: the sends it makes,
\* in list order, to the slots that are not NULL and are connected.
BroadcastStreamData(data) ==
    LET live == SelectSeq(streamingClients,
                          LAMBDA c : c # NullClient /\ c.connected) IN
    [i \in DOMAIN live |-> [chan |-> "stream", to |-> live[i].id, msg |-> data]]

\* A routing that writes the reply on the command connection and also
\* broadcasts it.
SendReply_Both(onlyStream, client, response) ==
    <<[chan |-> "rest", to |-> client, msg |-> response]>>
        \o BroadcastStreamData(response)

\* ProcessClient, lines 354-361: the reply goes to the streaming clients
\* when onlyStream is set and to the command client otherwise.
SendReply(onlyStream, client, response) ==
    IF onlyStream
    THEN BroadcastStreamData(response)
    ELSE <<[chan |-> "rest", to |-> client, msg |-> response]>>

\* An accept that takes every pending connection off the socket.
AfterAccept_All(pending) == <<>>

\* ServerSocket.Accept(), README.md lines 259 and 271: one call takes the
\* first pending connection and leaves the others pending.
AfterAccept(pending) == Tail(pending)

\* OnTimer: AcceptClients(ONLY_STREAM_MODE, DEBUG).  One call: the REST
\* part (accept, ProcessClient, delete) and then the streaming part.  A
\* critical error in ProcessClient stops the program inside the call.
AcceptClientsOf(requests) ==
    /\ ea = "running"
    /\ LET has    == restServer # "NULL" /\ rest_backlog # <<>>
           client == IF has THEN Head(rest_backlog) ELSE [id |-> 0, connected |-> FALSE]
           run    == has /\ client.connected
       IN
       \* Receive and the terminal's answers are consulted in ProcessClient only.
       \E request \in IF run THEN requests \cup {<<>>} ELSE {<<>>} :
       \E env \in IF run THEN Answers[request] ELSE {QuietEnv} :
        LET res     == Processed[request, env]
            crashed == run /\ res.crash
            replied == run /\ res.served /\ ~res.crash
            shas    == ~crashed /\ streamingServer # "NULL" /\ stream_backlog # <<>>
            sclient == IF shas THEN Head(stream_backlog) ELSE [id |-> 0, connected |-> FALSE]
        IN
        /\ ea' = IF crashed THEN "stopped" ELSE ea
        /\ rest_backlog' = IF has THEN AfterAccept(rest_backlog) ELSE rest_backlog
        /\ exchange' = IF has
                       THEN [client |-> client.id, connected |-> client.connected,
                             request |-> IF run THEN request ELSE <<>>,
                             served |-> run /\ res.served, crash |-> crashed,
                             response |-> IF replied THEN res.response ELSE <<>>]
                       ELSE NoExchange
        /\ produced' = IF replied THEN <<res.response>> ELSE <<>>
        /\ sent' = IF replied THEN SendReply(only_stream, client.id, res.response)
                   ELSE <<>>
        /\ watched' = IF replied THEN watched \cup res.select ELSE watched
        /\ undeleted' = undeleted
              \cup (IF has /\ (~client.connected \/ crashed)
                    THEN {[chan |-> "rest", id |-> client.id]} ELSE {})
              \cup (IF shas /\ ~sclient.connected
                    THEN {[chan |-> "stream", id |-> sclient.id]} ELSE {})
        /\ stream_backlog' = IF shas THEN AfterAccept(stream_backlog) ELSE stream_backlog
        /\ streamingClients' = IF shas /\ sclient.connected
                               THEN Append(streamingClients, sclient)
                               ELSE streamingClients
    /\ UNCHANGED <<streamerVars, enrichVars, codec, chartVars, only_stream, nrest, nstream,
                   lastBarTime, serverVars>>

AcceptClients == AcceptClientsOf(Requests)

\* A test that takes every change of the bar time for a new bar.
NewBar_AnyChange(currentBarTime, last) == currentBarTime # last

\* OnTick, line 51: if (currentBarTime > lastBarTime)
NewBar(currentBarTime, last) == currentBarTime > last

\* OnTick, MT5Ext.mq5 lines 40-63: the tick message is broadcast, then the
\* bar message when a new bar has opened.
OnTick ==
    /\ ea = "running"
    /\ \E tick_ok \in BOOLEAN, currentBarTime \in 0..MaxBarTime :
        LET env        == [QuietEnv EXCEPT !.tick_ok = tick_ok]
            latestTick == GetLatestTick(ChartSymbol, env)
            latestBar  == GetLatestBar(ChartSymbol)
            newBar     == NewBar(currentBarTime, lastBarTime)
        IN
        /\ produced' = <<latestTick>> \o (IF newBar THEN <<latestBar>> ELSE <<>>)
        /\ sent' = BroadcastStreamData(latestTick) \o
                   (IF newBar THEN BroadcastStreamData(latestBar) ELSE <<>>)
        /\ lastBarTime' = IF newBar THEN currentBarTime ELSE lastBarTime
    /\ exchange' = NoExchange
    /\ UNCHANGED <<streamerVars, enrichVars, codec, chartVars, only_stream, ea, rest_backlog,
                   stream_backlog, streamingClients, undeleted, nrest, nstream,
                   watched, serverVars>>

\* A client connects to the REST socket; connected: what IsSocketConnected
\* will say of it when it is accepted.
RestConnect(connected) ==
    /\ ea = "running"
    /\ nrest < MaxRestConns
    /\ nrest' = nrest + 1
    /\ rest_backlog' = Append(rest_backlog, [id |-> nrest + 1, connected |-> connected])
    /\ UNCHANGED <<streamerVars, enrichVars, codec, chartVars, only_stream, ea, stream_backlog,
                   streamingClients, undeleted, exchange, produced, sent, nstream,
                   lastBarTime, watched, serverVars>>

\* A client connects to the terminal's streaming socket, among at most max.
StreamConnectOf(max, connected) ==
    /\ ea = "running"
    /\ nstream < max
    /\ nstream' = nstream + 1
    /\ stream_backlog' = Append(stream_backlog, [id |-> nstream + 1, connected |-> connected])
    /\ UNCHANGED <<streamerVars, enrichVars, codec, chartVars, only_stream, ea, rest_backlog,
                   streamingClients, undeleted, exchange, produced, sent, nrest,
                   lastBarTime, watched, serverVars>>

StreamConnect(connected) == StreamConnectOf(MaxStreamConns, connected)

TermInit ==
    /\ StreamerInit /\ ~use_socket /\ ~use_websockets /\ callback = "None"
    /\ obj = <<>> /\ enriched = <<>> /\ codec = NoCodec
    /\ only_stream \in BOOLEAN
    /\ TermStart /\ ChartsStart

TermNext ==
    \/ AcceptClients
    \/ OnTick
    \/ \E connected \in BOOLEAN : RestConnect(connected)
    \/ \E connected \in BOOLEAN : StreamConnect(connected)

TermSpec == TermInit /\ [][TermNext]_vars

\* The command server under requests for the commands of the registry.
RegistryNext ==
    \/ AcceptClientsOf(RegistryRequests)
    \/ \E connected \in BOOLEAN : RestConnect(connected)
    \/ \E connected \in BOOLEAN : StreamConnect(connected)

RegistrySpec == TermInit /\ [][RegistryNext]_vars

\* The remote end of the streaming client of slot i goes away:
\* IsSocketConnected is false of it from then on.
StreamDrop(i) ==
    /\ ea = "running"
    /\ i \in DOMAIN streamingClients
    /\ streamingClients[i].connected
    /\ streamingClients' = [streamingClients EXCEPT ![i].connected = FALSE]
    /\ UNCHANGED <<streamerVars, enrichVars, codec, chartVars, only_stream, ea, rest_backlog,
                   stream_backlog, undeleted, exchange, produced, sent, nrest,
                   nstream, lastBarTime, watched, serverVars>>

\* A CloseServers that deletes the streaming clients and keeps their
\* pointers in the array.
ClosedSlots_Kept(clients) == clients

\* CloseServers, README.md lines 245-252: every slot that is not NULL is
\* deleted and set to NULL.
ClosedSlots(clients) == [i \in DOMAIN clients |-> NullClient]

\* CloseServers, README.md lines 231-253 (called by OnDeinit): each server
\* pointer that is not NULL is deleted and set to NULL, then the slots.
CloseServers ==
    /\ ea = "running"
    /\ restServer' = "NULL"
    /\ streamingServer' = "NULL"
    /\ streamingClients' = ClosedSlots(streamingClients)
    /\ exchange' = NoExchange
    /\ produced' = <<>>
    /\ sent' = <<>>
    /\ UNCHANGED <<streamerVars, enrichVars, codec, chartVars, only_stream, ea, rest_backlog,
                   stream_backlog, undeleted, nrest, nstream, lastBarTime, watched>>

\* Streaming clients of the fan-out.
MaxFanOut == 2

\* The one request of the command clients here: the connection check.
CheckRequests == {MakeMessage(F("0", "0", "0"), One, <<ChartSymbol>>)}

\* The servers' life: clients come and go on the streaming socket, the
\* timer and the ticks go on, and the functions of MT5Ext.mqh are also
\* called after CloseServers.
ServersNext ==
    \/ AcceptClientsOf(CheckRequests)
    \/ OnTick
    \/ RestConnect(TRUE)
    \/ \E connected \in BOOLEAN : StreamConnectOf(MaxFanOut, connected)
    \/ \E i \in 1..MaxFanOut : StreamDrop(i)
    \/ CloseServers

ServersSpec == TermInit /\ [][ServersNext]_vars

----------------------------------------------------------------------------
\* The terminal's broadcasts as frames of the receiver.  Both programs
\* listen (the terminal on STREAM_SERVER_PORT, the receiver on
\* callback_port) and neither connects to the other: a broadcast reaches the
\* receiver when the program connected to the terminal's streaming port
\* sends its bytes on a connection to the receiver's port.

\* The characters a JSON text can start with (json.loads skips no letter):
\* an object, an array, a string, a number, true, false, null, white space.
JsonStarts == {"{", "[", "\"", "-", "0", "1", "2", "3", "4", "5", "6", "7",
               "8", "9", "t", "f", "n", " "}

\* json.loads on the text of a message: a text that starts with no such
\* character raises JSONDecodeError ("Expecting value").
IsJsonText(text) == text # <<>> /\ text[1] \in JsonStarts

\* The bytes of a terminal message as recv returns them: ASCII text, which
\* decodes as UTF-8; no record, hence no "time" key, unless it parses.
PayloadOf(message) == Data(TRUE, IsJsonText(message), "absent")

\* Lines 115-134 for a connection on which a message of the terminal's last
\* broadcast was forwarded.
FlowRecv(t) ==
    \E i \in DOMAIN sent :
        /\ sent[i].chan = "stream"
        /\ ThreadRecv(t, PayloadOf(sent[i].msg))

\* A receiver built with a callback, in socket mode, beside a terminal.
FlowInit == Init /\ use_socket /\ ~use_websockets /\ callback = "cb1"

FlowNext ==
    \/ StartStopped
    \/ \E t \in Threads : ThreadRun(t)
    \/ \E t \in Threads : ThreadBind(t)
    \/ \E t \in Threads : ThreadWhileSock(t)
    \/ \E t \in Threads : ThreadSelect(t)
    \/ \E t \in Threads : FlowRecv(t)
    \/ PeerConnect(FALSE)
    \/ \E connected \in BOOLEAN : StreamConnect(connected)
    \/ AcceptClients
    \/ OnTick

FlowSpec == FlowInit /\ [][FlowNext]_vars

----------------------------------------------------------------------------
\* The manager and worker programs of the charts (README.md lines 20-146).
\* Every chart that has the program attached holds its own globals workers,
\* managers and queue; the programs talk through custom chart events.

MaxQueued == 2      \* events waiting in the queue of one chart

\* IdSet::_find(id): id is among the open charts (ChartFirst .. ChartNext).
find(id) == id \in Charts /\ charts[id].open

\* An Add that goes straight to CArrayLong::Add.
Add_Append(set, chart_id) == [ok |-> TRUE, set |-> Append(set, chart_id)]

\* IdSet::Add(chart_id), lines 41-47: false when the id is found, else the
\* id is appended.
Add(set, chart_id) ==
    IF \E i \in DOMAIN set : set[i] = chart_id
    THEN [ok |-> FALSE, set |-> set]
    ELSE [ok |-> TRUE, set |-> Append(set, chart_id)]

\* CArrayLong::Delete(i) for the position i of the sequence.
Delete(set, i) == SubSeq(set, 1, i - 1) \o SubSeq(set, i + 1, Len(set))

\* IdSet::clean(), lines 48-53: the loop from the last element down to the
\* first, the elements up to position i being still to visit.
RECURSIVE CleanDown(_, _)
CleanDown(set, i) ==
    IF i = 0 THEN set
    ELSE CleanDown(IF find(set[i]) THEN set ELSE Delete(set, i), i - 1)

clean(set) == CleanDown(set, Len(set))

\* clean_arrays(), lines 142-146, on the globals of the program of chart c.
clean_arrays(cs, c) ==
    [cs EXCEPT ![c].workers = clean(@), ![c].managers = clean(@)]

Event(id, lparam) == [id |-> id, lparam |-> lparam]

\* EventChartCustom(ch, id, lparam, ...): false when ch is not an open
\* chart; else the event goes into the queue of ch.  An event for a chart
\* that has no program attached is lost, or waits for one (kept).
EventChartCustom(cs, ch, ev, kept) ==
    IF ch \notin Charts \/ ~cs[ch].open
    THEN [ok |-> FALSE, cs |-> cs]
    ELSE [ok |-> TRUE,
          cs |-> IF cs[ch].loaded \/ kept
                 THEN [cs EXCEPT ![ch].inbox = Append(@, ev)]
                 ELSE cs]

\* OnInit, lines 68-77: the loop over the charts from chart ch on.
RECURSIVE Register(_, _, _, _)
Register(cs, c, ch, kept) ==
    IF ch > MaxCharts THEN cs
    ELSE IF ch = c \/ ~cs[ch].open THEN Register(cs, c, ch + 1, kept)
    ELSE Register(EventChartCustom(cs, ch,
                      Event(IF cs[c].mode = "MCEA_WORKER"
                            THEN "MCEA_WORKER_REGISTER"
                            ELSE "MCEA_MANAGER_REGISTER", c), kept).cs,
                  c, ch + 1, kept)

\* The program is attached to chart c with input InpMode = mode: its
\* globals are empty, queue is zero, and OnInit runs.
OnInit(c, mode) ==
    /\ charts[c].open /\ ~charts[c].loaded
    /\ \E kept \in BOOLEAN :
        charts' = Register([charts EXCEPT ![c].loaded = TRUE, ![c].mode = mode,
                                          ![c].workers = <<>>, ![c].managers = <<>>],
                           c, 1, kept)
    /\ UNCHANGED <<streamerVars, enrichVars, codec, termVars>>

\* this[i] of CArrayLong: LONG_MAX (no chart) when i is out of range.
At(set, i) == IF i \in DOMAIN set THEN set[i] ELSE 0

\* OnTick of a worker, lines 83-87: the loop from the last manager down,
\* position i being the next to visit; clean_arrays after a failed send.
RECURSIVE TickDown(_, _, _)
TickDown(cs, c, i) ==
    IF i = 0 THEN cs
    ELSE LET r == EventChartCustom(cs, At(cs[c].managers, i),
                                   Event("MCEA_WORKER_TICK", c), FALSE)
         IN TickDown(IF r.ok THEN r.cs ELSE clean_arrays(r.cs, c), c, i - 1)

\* OnTick of a manager, lines 89-98: queue.id is -1 after it.
ManagerTick(cs, c) == [cs EXCEPT ![c].queue_id = -1]

\* OnTick, lines 79-99, on chart c; a worker's events need room in the
\* queues of the charts.
ChartTick(c) ==
    /\ charts[c].open /\ charts[c].loaded
    /\ charts[c].mode = "MCEA_WORKER" =>
           \A m \in Charts :
               Len(charts[m].inbox) + Len(charts[c].managers) <= MaxQueued
    /\ charts' = IF charts[c].mode = "MCEA_WORKER"
                 THEN TickDown(charts, c, Len(charts[c].managers))
                 ELSE ManagerTick(charts, c)
    /\ UNCHANGED <<streamerVars, enrichVars, codec, termVars>>

\* A handler in which a program takes no note of a reply to its own
\* registration.
HandleEvent_RepliesIgnored(cs, c, ev) ==
    LET asM  == cs[c].mode = "MCEA_MANAGER"
        reg  == ev.id = (IF asM THEN "MCEA_WORKER_REGISTER"
                         ELSE "MCEA_MANAGER_REGISTER")
        tick == asM /\ ev.id = "MCEA_WORKER_TICK"
        added == IF asM
                 THEN [cs EXCEPT ![c].workers = Add(@, ev.lparam).set]
                 ELSE [cs EXCEPT ![c].managers = Add(@, ev.lparam).set]
        r    == EventChartCustom(added, ev.lparam,
                    Event(IF asM THEN "MCEA_WORKER_REGISTER_REPLY"
                          ELSE "MCEA_MANAGER_REGISTER_REPLY", c), FALSE)
    IN IF reg THEN (IF r.ok THEN r.cs ELSE clean_arrays(r.cs, c))
       ELSE IF tick THEN ManagerTick([cs EXCEPT ![c].queue_id = ev.lparam], c)
       ELSE cs

\* OnChartEvent(id, lparam, ...), lines 101-139, in the program of chart c:
\* a registration is noted and answered (clean_arrays when the answer cannot
\* be sent), a reply is noted, a worker's tick fills queue and calls OnTick.
HandleEvent(cs, c, ev) ==
    LET asM  == cs[c].mode = "MCEA_MANAGER"
        reg  == ev.id = (IF asM THEN "MCEA_WORKER_REGISTER"
                         ELSE "MCEA_MANAGER_REGISTER")
        rep  == ev.id = (IF asM THEN "MCEA_MANAGER_REGISTER_REPLY"
                         ELSE "MCEA_WORKER_REGISTER_REPLY")
        tick == asM /\ ev.id = "MCEA_WORKER_TICK"
        added == IF asM
                 THEN [cs EXCEPT ![c].workers = Add(@, ev.lparam).set]
                 ELSE [cs EXCEPT ![c].managers = Add(@, ev.lparam).set]
        r    == EventChartCustom(added, ev.lparam,
                    Event(IF asM THEN "MCEA_WORKER_REGISTER_REPLY"
                          ELSE "MCEA_MANAGER_REGISTER_REPLY", c), FALSE)
    IN IF reg THEN (IF r.ok THEN r.cs ELSE clean_arrays(r.cs, c))
       ELSE IF rep THEN added
       ELSE IF tick THEN ManagerTick([cs EXCEPT ![c].queue_id = ev.lparam], c)
       ELSE cs

\* The first event of the queue of chart c is delivered to its program.
OnChartEvent(c) ==
    /\ charts[c].open /\ charts[c].loaded
    /\ charts[c].inbox # <<>>
    /\ charts' = HandleEvent([charts EXCEPT ![c].inbox = Tail(@)], c,
                             Head(charts[c].inbox))
    /\ UNCHANGED <<streamerVars, enrichVars, codec, termVars>>

\* Chart c is closed: its program is removed with its globals and queue.
ChartClose(c) ==
    /\ charts[c].open
    /\ charts' = [charts EXCEPT ![c] = [BareChart EXCEPT !.open = FALSE]]
    /\ UNCHANGED <<streamerVars, enrichVars, codec, termVars>>

ChartInit == Init /\ ~use_socket /\ ~use_websockets /\ callback = "None"

ChartNext ==
    \E c \in Charts :
        \/ \E mode \in {"MCEA_WORKER", "MCEA_MANAGER"} : OnInit(c, mode)
        \/ OnChartEvent(c)
        \/ ChartTick(c)
        \/ ChartClose(c)

ChartSpec == ChartInit /\ [][ChartNext]_vars

----------------------------------------------------------------------------
\* Properties.

\* C1: once stop() has been called on a started receiver, is_running()
\* eventually returns false, in socket mode and in task-polling mode, also
\* with websocket clients connected.
C1_ShutdownLiveness == (stop_pc = "join" /\ stream_thread # 0) ~> ~is_running

\* C2: start() returns control to its caller in every configuration: once
\* start() has spawned the poll thread, the call eventually returns.
C2_StartReturnsControl == (stream_thread # 0) ~> (start_pc = "returned")

\* C3: a stop() call that is the last lifecycle call made, whether start()
\* was called before or not and whether it is the first stop() or a repeated
\* one, has returned without raising and is_running() is false.
C3_StopIdempotentSafe ==
    stop_outcome # "none" => (stop_outcome = "returned" /\ ~is_running)

\* C3 witness: stop() has returned twice in a row on a receiver that was
\* started.
C3_Witness == stop_outcome = "returned" /\ stops_in_row = 2 /\ stream_thread # 0

\* C4: with the websocket transport enabled, a step that delivers a frame to
\* the consumer callback also sends that frame to every websocket client
\* connected at that moment.
C4_FanOutEveryFrame ==
    [][(use_websockets /\ Len(delivered') > Len(delivered)) =>
        \A c \in connected_clients :
            /\ Len(ws_outbox'[c]) = Len(ws_outbox[c]) + 1
            /\ ws_outbox'[c][Len(ws_outbox'[c])] = delivered'[Len(delivered')].frame]_vars

\* C5: when a frame is delivered while several websocket clients are
\* connected, at most one of them (one that closed or whose send failed) is
\* removed from connected_clients, every other client has the frame, and the
\* poll thread stays alive.
C5_FanOutIsolation ==
    [][(Len(delivered') > Len(delivered) /\ Cardinality(connected_clients) >= 2) =>
        /\ connected_clients' \subseteq connected_clients
        /\ Cardinality(connected_clients \ connected_clients') <= 1
        /\ \A c \in connected_clients' :
              \E n \in DOMAIN ws_outbox'[c] :
                  ws_outbox'[c][n] = delivered'[Len(delivered')].frame
        /\ \A t \in Threads : IsAlive(t) => thr'[t].pc # "dead"]_vars

\* C6: a frame that cannot be parsed (text that is not JSON, undecodable
\* bytes, a "time" value that is not a number) is dropped with its
\* connection closed, and the thread that read it goes on with the loop.
C6_MalformedFrameDropped ==
    [][\A t \in Threads, p \in Payloads :
          (ThreadRecv(t, p) /\ p.bytes = "data" /\ FrameOutcome(p) # "delivered") =>
              /\ thr'[t].pc = "while_sock"
              /\ conns' = conns
              /\ delivered' = delivered]_vars

\* C7: the iteration of the poll cycle over the task table never fails
\* because of subscribe and unsubscribe calls made meanwhile: while the
\* receiver is not stopping, next() on the table's iterator does not end the
\* thread.
DictErrors == {"RuntimeError_dict_changed_size", "RuntimeError_dict_keys_changed"}

C7_PollSurvivesTableCalls ==
    [][\A t \in Threads :
          (thr[t].pc = "for_next" /\ ~stream_stop_event) =>
              thr'[t].cause \notin DictErrors]_vars

\* C8: subscribe is idempotent per key.  After subscribe(req_id, symbols, ...)
\* the table holds exactly one entry under the task id of each symbol of the
\* call; an entry that was there before the call keeps the values of the
\* subscription that made it; and a call all of whose task ids were there
\* leaves the table as it was.
C8_SubscribeIdempotent ==
    [][\A r \in ReqIds, ss \in SymbolLists, i \in Intervals,
          p \in Producers, k \in Kwargs :
          CreateStreamingTask(r, ss, i, p, k) =>
              /\ \A n \in DOMAIN ss :
                    LET id == task_id(ss[n], r) IN
                    /\ Cardinality({j \in DOMAIN stream_tasks' :
                                       stream_tasks'[j].id = id}) = 1
                    /\ id \in Keys(stream_tasks) =>
                          Item(stream_tasks', id) = Item(stream_tasks, id)
              /\ (\A n \in DOMAIN ss : task_id(ss[n], r) \in Keys(stream_tasks)) =>
                    stream_tasks' = stream_tasks]_vars

\* C8 witness: the last call was a subscribe for a task the table held.
C8_Witness == last_call = [op |-> "subscribe", known |-> TRUE] /\ stream_tasks # <<>>

C10_PairHasOwnEntry ==
    [][\A r \in ReqIds, sym \in Symbols, i \in Intervals,
          p \in Producers, k \in Kwargs :
          CreateStreamingTask(r, <<sym>>, i, p, k) =>
              HasEntry(stream_tasks', sym, r)]_vars

\* C11: a bind failure of the listening socket is reported to the caller of
\* start(): the receiver is never in the state where start() has returned
\* normally, no stop() was called since, and the poll thread has ended on
\* the OSError of bind.
C11_BindFailureReported ==
    ~(/\ start_pc = "returned"
      /\ stop_pc = "idle"
      /\ stops_in_row = 0
      /\ stream_thread # 0
      /\ ~is_running
      /\ thr[stream_thread].cause = "OSError")

C13_UtcRendering(e) ==
    CASE e = 0          -> "1970-01-01 00:00:00"
      [] e = 86399      -> "1970-01-01 23:59:59"
      [] e = 951782400  -> "2000-02-29 00:00:00"
      [] e = 1700000000 -> "2023-11-14 22:13:20"

\* b is a with, in every mapping that has a "time" key and in no other, a
\* "time_human" field holding the rendering of that mapping's own "time";
\* nothing else is added, removed or changed, at any depth.
RECURSIVE C13_IsEnrichmentOf(_, _)
C13_IsEnrichmentOf(a, b) ==
    IF a.kind = "dict"
    THEN /\ b.kind = "dict"
         /\ DictKeys(b.dict) =
               DictKeys(a.dict) \cup
               (IF "time" \in DictKeys(a.dict) THEN {"time_human"} ELSE {})
         /\ Len(b.dict) = Cardinality(DictKeys(b.dict))
         /\ \A k \in DictKeys(b.dict) :
               IF k = "time_human" /\ "time" \in DictKeys(a.dict)
               THEN DictGet(b.dict, k) =
                       JsonStr(C13_UtcRendering(DictGet(a.dict, "time").num))
               ELSE C13_IsEnrichmentOf(DictGet(a.dict, k), DictGet(b.dict, k))
    ELSE IF a.kind = "list"
    THEN /\ b.kind = "list"
         /\ Len(b.list) = Len(a.list)
         /\ \A i \in DOMAIN a.list : C13_IsEnrichmentOf(a.list[i], b.list[i])
    ELSE b = a

\* C13: after _add_time_human, every mapping of the record that has a "time"
\* key, at any depth inside mappings and lists, has a "time_human" field
\* equal to the UTC rendering of its own epoch value; mappings without "time"
\* get none, and no other field is added, removed or changed.
C13_TimestampEnrichment ==
    enriched # <<>> => C13_IsEnrichmentOf(obj[1], enriched[1])

\* C13 witness: a record with two "time" occurrences of different epochs,
\* one of them inside a list inside a mapping, was enriched.
C13_Witness ==
    /\ enriched # <<>>
    /\ obj[1] = JsonDict(<<[key |-> "time", val |-> JsonNum(0)],
                           [key |-> "v", val |->
                              JsonList(<<JsonDict(<<[key |-> "time",
                                                     val |-> JsonNum(1700000000)]>>)>>)]>>)

\* C17: decoding with ParseRequest the line MakeMessage made of a registry
\* command, its sub_code and a parameter list free of delimiters (the empty
\* list and empty strings included) gives back the three of them.
C17_CodecRoundTrip ==
    codec.stage = "decoded" =>
        /\ ~codec.parsed.crash
        /\ codec.parsed.command = codec.command
        /\ codec.parsed.subCommand = codec.subCommand
        /\ codec.parsed.parameters = codec.parameters

\* The fields of the request of the last command exchange.
ExchangeFields == StringSplit(exchange.request, "^")

\* The last handler call served a request that has a (command, subCommand) pair.
ExchangePaired == exchange.served /\ Len(ExchangeFields) >= 2

ExchangePair == <<ExchangeFields[1], ExchangeFields[2]>>

\* C14: the reply to a command request is F999^1^UNKNOWN_REQUEST exactly
\* when the pair of its first two fields is no dispatch entry (both fields
\* compared whole), and the program is still running after that reply, so
\* that the next timer call serves the next request.
C14_UnknownRequest ==
    ExchangePaired =>
        /\ (exchange.response = UnknownReply) <=> (ExchangePair \notin DispatchPairs)
        /\ exchange.response = UnknownReply => ea = "running"

\* C14: an unknown code, a known code with another sub code, a prefix and an
\* extension of a known code have each been answered with the unknown reply
\* (here: the known code F000 with sub code 2, sent by the second client).
C14_Witness ==
    /\ exchange.client = 2
    /\ exchange.request = MakeMessage(F("0", "0", "0"), Two, <<>>)
    /\ exchange.response = UnknownReply
    /\ ea = "running"

\* C15: a request with fewer than two fields is answered with a message and
\* the program keeps running.
C15_MalformedAnswered ==
    (exchange.served /\ Len(ExchangeFields) < 2) =>
        /\ exchange.response # <<>>
        /\ ea = "running"

\* C16: a request whose pair is an entry of a symbol handler gets a reply and
\* the timer call completes.
C16_SymbolDispatchReplies ==
    (ExchangePaired /\ ExchangePair \in SymbolPairs) =>
        /\ ~exchange.crash
        /\ exchange.response # <<>>
        /\ ea = "running"

Digits == {"0", "1", "2", "3", "4", "5", "6", "7", "8", "9"}

\* A sub code that is a decimal number.
IsNumeric(text) == text # <<>> /\ \A i \in DOMAIN text : text[i] \in Digits

RECURSIVE StringToInteger(_)
StringToInteger(text) ==
    IF text = <<>> THEN 0
    ELSE LET last == text[Len(text)] IN
         10 * StringToInteger(SubSeq(text, 1, Len(text) - 1))
           + (CHOOSE n \in 0..9 : ToString(n) = last)

\* C18: every message a handler made in the last handler call whose sub code
\* is a number carries that many parameters.
C18_SubCodeCountsParameters ==
    \A i \in DOMAIN produced :
        LET m == ParseRequest(produced[i]) IN
        IsNumeric(m.subCommand) => StringToInteger(m.subCommand) = Len(m.parameters)

\* A message that carries one of the two error literals among its parameters.
IsErrorReply(message) ==
    \E k \in DOMAIN ParseRequest(message).parameters :
        ParseRequest(message).parameters[k] \in {ERROR, UNKNOWN_REQUEST}

\* C19: every error reply made in the last handler call has sub code "1"
\* and exactly one parameter, the literal ERROR or UNKNOWN_REQUEST.
C19_ErrorReplyShape ==
    \A i \in DOMAIN produced :
        LET m == ParseRequest(produced[i]) IN
        IsErrorReply(produced[i]) =>
            /\ m.subCommand = One
            /\ Len(m.parameters) = 1
            /\ m.parameters[1] \in {ERROR, UNKNOWN_REQUEST}

\* C19: a last tick request whose tick query failed has been answered
\* F020^1^ERROR.
C19_Witness ==
    /\ exchange.request = MakeMessage(F("0", "2", "0"), Two, <<ChartSymbol>>)
    /\ exchange.response = MakeMessage(F("0", "2", "0"), One, <<ERROR>>)
    /\ produced = <<exchange.response>>

\* C20: no connection accepted on the command socket is left undeleted by
\* the timer call that accepted it.
C20_CommandConnectionReleased ==
    \A c \in undeleted : c.chan # "rest"

\* The sends of the list s on channel chan to connection c.
SendsTo(s, chan, c) ==
    {i \in DOMAIN s : s[i].chan = chan /\ s[i].to = c}

\* C21: a timer call that serves a command request sends the reply, in
\* stream-only mode, to the streaming clients that are connected at that
\* moment and not to the command connection, and in normal mode to the
\* command connection, once, and to no streaming client; no connection gets
\* the reply twice, and the command connection is deleted by the call.
C21_ReplyRouting ==
    [][(exchange' # exchange /\ exchange'.served /\ ~exchange'.crash) =>
        /\ \A i \in DOMAIN sent' : sent'[i].msg = exchange'.response
        /\ \A i, j \in DOMAIN sent' : sent'[i].to = sent'[j].to => i = j
        /\ [chan |-> "rest", id |-> exchange'.client] \notin undeleted'
        /\ IF only_stream
           THEN /\ SendsTo(sent', "rest", exchange'.client) = {}
                /\ \A k \in DOMAIN streamingClients :
                      Cardinality(SendsTo(sent', "stream", streamingClients[k].id)) =
                          (IF streamingClients[k].connected THEN 1 ELSE 0)
           ELSE /\ Cardinality(SendsTo(sent', "rest", exchange'.client)) = 1
                /\ Len(sent') = 1]_vars

\* C21 witness: in stream-only mode a request was served while a streaming
\* client was connected, and the reply went to that client.
C21_Witness ==
    /\ only_stream
    /\ exchange.served /\ ~exchange.crash
    /\ streamingClients # <<>>
    /\ Len(sent) = 1 /\ sent[1].chan = "stream"

\* C22: a request for a command of the registry gets the reply of its
\* handler: a message under the request's command code, not the unknown
\* request message.
C22_RegistryDispatched ==
    (exchange.served /\ exchange.request \in RegistryRequests) =>
        /\ ~exchange.crash
        /\ exchange.response # UnknownReply
        /\ ParseRequest(exchange.response).command = ExchangeFields[1]

\* C23: a task that is no longer in the table is not polled again: when
\* the loop of _stream_data tests whether to call the producer once more
\* and the task it runs has been removed by unsubscribe, it does not go on
\* to another producer call.
C23_RemovedTaskNotPolled ==
    [][\A t \in Threads :
          (/\ thr[t].pc = "sd_while"
           /\ thr[t].task.id \notin Keys(stream_tasks)
           /\ last_call.op = "unsubscribe") =>
              thr'[t].pc # "sd_call"]_vars

\* The producer of the task with id k is being called.
Polling(k) == \E t \in Threads : thr[t].pc = "sd_call" /\ thr[t].task.id = k

\* C24: while the receiver runs, every task of the table is polled again
\* and again: a task that is in the table of a running receiver is
\* eventually polled, unless it leaves the table or the receiver stops
\* running first.
C24_EveryTaskPolled ==
    \A sym \in PollSymbols, r \in PollReqIds :
        (task_id(sym, r) \in Keys(stream_tasks) /\ is_running)
            ~> (\/ Polling(task_id(sym, r))
                \/ task_id(sym, r) \notin Keys(stream_tasks)
                \/ ~is_running)

\* C25: the accept loop has no unbounded blocking point: a thread that has
\* accepted a connection from a peer that has sent nothing (no connection
\* was left open before) gets back to the loop, where it tests the stop
\* event and selects again.
C25_NoUnboundedBlocking ==
    \A t \in Threads :
        (thr[t].pc = "recv" /\ thr[t].conn.quiet /\ conns = {})
            ~> (thr[t].pc # "recv")

\* The frames delivered from connection c.
DeliveredFrom(c) == {n \in DOMAIN delivered : delivered[n].frame = c}

\* C26: a further frame that the peer sends on a connection whose first
\* frame was delivered is read and delivered too.
C26_FurtherFramesDelivered ==
    \A c \in 1..MaxFrames :
        (c \in pushed /\ DeliveredFrom(c) # {})
            ~> (c \notin pushed /\ Cardinality(DeliveredFrom(c)) >= 2)

\* C28: whatever the consumer callback does with a frame it is given, the
\* thread that gave it the frame goes on with the accept loop.
C28_CallbackErrorContained ==
    [][\A t \in Threads :
          (thr[t].pc = "recv" /\ delivered' # delivered) =>
              thr'[t].pc = "while_sock"]_vars

\* C27: a tick or bar message of the terminal's broadcast that the receiver
\* reads from a connection is parsed and delivered to the consumer callback.
C27_BroadcastDelivered ==
    [][\A t \in Threads, i \in DOMAIN sent :
          (sent[i].chan = "stream" /\ ThreadRecv(t, PayloadOf(sent[i].msg))) =>
              Len(delivered') = Len(delivered) + 1]_vars

\* C29: once stop() has returned, and until the next start(), no step
\* hands a frame to the consumer callback and no step calls a producer.
C29_QuietAfterStop ==
    [][stop_outcome = "returned" =>
        /\ delivered' = delivered
        /\ \A t \in Threads : ~(thr[t].pc = "sd_call" /\ thr'[t].pc # "sd_call")]_vars

\* C30: when stop() has returned on a receiver that was started, the task
\* table has no entry and no websocket client is left in connected_clients.
C30_TornDownAfterStop ==
    (stop_outcome = "returned" /\ stream_thread # 0) =>
        /\ stream_tasks = <<>>
        /\ connected_clients = {}

LiveSlots == {i \in DOMAIN streamingClients :
                 streamingClients[i].id # 0 /\ streamingClients[i].connected}

\* C32: in every broadcast (the tick and bar messages of OnTick, the reply
\* of a command in stream-only mode) no send goes to a slot that is NULL or
\* disconnected, every message is sent exactly once to each connected
\* streaming client, the sends of a message follow the order of the list,
\* and the program is not stopped.
C32_BroadcastSkipsDead ==
    [][(OnTick \/ (AcceptClientsOf(CheckRequests) /\ only_stream)) =>
        /\ \A k \in DOMAIN sent' :
              /\ sent'[k].chan = "stream"
              /\ \E i \in LiveSlots : streamingClients[i].id = sent'[k].to
        /\ \A m \in DOMAIN produced' : \A i \in LiveSlots :
              Cardinality({k \in DOMAIN sent' :
                              /\ sent'[k].to = streamingClients[i].id
                              /\ sent'[k].msg = produced'[m]}) = 1
        /\ \A k, l \in DOMAIN sent' :
              (k < l /\ sent'[k].msg = sent'[l].msg) =>
                  \E i, j \in LiveSlots :
                      /\ i < j
                      /\ streamingClients[i].id = sent'[k].to
                      /\ streamingClients[j].id = sent'[l].to
        /\ ea' = "running"]_vars

\* A message was broadcast to the second streaming client while the first
\* one is in the list and disconnected.
C32_Witness ==
    /\ Len(streamingClients) = 2
    /\ streamingClients[1].id # 0 /\ ~streamingClients[1].connected
    /\ streamingClients[2].connected
    /\ sent # <<>> /\ sent[1].to = streamingClients[2].id

\* CloseServers has run: both server pointers are NULL.
ServersClosed == restServer = "NULL" /\ streamingServer = "NULL"

\* C37: once CloseServers has run, both server pointers and every slot of
\* streamingClients are NULL and stay so; a later call of AcceptClients, of
\* OnTick (BroadcastStreamData) or of CloseServers accepts no pending
\* connection, sends nothing, stores and deletes no client, and does not
\* stop the program; a second CloseServers leaves pointers and slots as
\* they are.
C37_ClosedStaysClosed ==
    [][/\ CloseServers =>
            /\ ServersClosed'
            /\ \A i \in DOMAIN streamingClients' : streamingClients'[i] = NullClient
       /\ ServersClosed =>
            /\ ServersClosed'
            /\ \A i \in DOMAIN streamingClients : streamingClients[i] = NullClient
            /\ streamingClients' = streamingClients
            /\ Len(rest_backlog') >= Len(rest_backlog)
            /\ Len(stream_backlog') >= Len(stream_backlog)
            /\ sent' = <<>>
            /\ exchange' = NoExchange
            /\ undeleted' = undeleted
            /\ ea' = ea]_vars

\* After CloseServers, with a slot that held a streaming client and with
\* connections pending on both sockets, a tick has come.
C37_Witness ==
    /\ ServersClosed
    /\ streamingClients # <<>>
    /\ rest_backlog # <<>> /\ stream_backlog # <<>>
    /\ produced # <<>>

\* The pairs of the handlers that call SymbolSelect(symbol, true).
WatchPairs == {<<F("0", "0", "4"), Two>>, <<F("0", "2", "0"), Two>>}

\* The fields of every request of the model.
FieldsOf == [request \in Requests \cup RegistryRequests \cup {<<>>} |->
                StringSplit(request, "^")]

\* The symbol the request served by the step names.
ServedSymbol == FieldsOf[exchange'.request][3]

\* The step serves, without critical error, a request that names a symbol
\* and whose pair is one of pairs.
ServesSymbol(pairs) ==
    /\ exchange' # exchange
    /\ exchange'.served /\ ~exchange'.crash
    /\ Len(FieldsOf[exchange'.request]) >= 3
    /\ <<FieldsOf[exchange'.request][1], FieldsOf[exchange'.request][2]>> \in pairs

C34_SinglePollContext ==
    /\ Cardinality({t \in Threads : IsAlive(t)}) <= 1
    /\ (stop_outcome = "returned" /\ stop_pc = "idle") =>
           \A t \in Threads : ~IsAlive(t)

\* The polling run of task k has just ended in thread t with no stop
\* requested: its producer (or the consumer callback) raised.
RunEnded(t, k) ==
    /\ thr[t].pc = "for_next"
    /\ ~stream_stop_event
    /\ thr[t].it_pos \in DOMAIN stream_tasks
    /\ stream_tasks[thr[t].it_pos].id = k

\* C35: a task whose polling run was ended by an exception is polled again
\* later, unless it leaves the table, a stop is requested or the receiver
\* stops running first.
C35_FailedTaskPolledAgain ==
    \A sym \in PollSymbols, r \in PollReqIds :
        (\E t \in Threads : RunEnded(t, task_id(sym, r)))
            ~> (\/ Polling(task_id(sym, r))
                \/ task_id(sym, r) \notin Keys(stream_tasks)
                \/ stream_stop_event
                \/ ~is_running)

\* The command code of a message.
CodeOf(message) == SubSeq(message, 1, 4)

Ids(set) == {set[i] : i \in DOMAIN set}

\* A registration or a reply waits in the queue of chart c.
RegistrationPending(c) ==
    \E i \in DOMAIN charts[c].inbox : charts[c].inbox[i].id # "MCEA_WORKER_TICK"

\* The program runs on chart c in the given mode.
Runs(c, mode) == charts[c].open /\ charts[c].loaded /\ charts[c].mode = mode

\* C38: when a manager and a worker both run and no registration or reply
\* event waits in their queues, the manager's workers hold the worker's
\* chart id and the worker's managers hold the manager's chart id, in
\* whatever order the two programs were initialised.
C38_RegistrationConverges ==
    \A m, w \in Charts :
        (/\ Runs(m, "MCEA_MANAGER") /\ Runs(w, "MCEA_WORKER")
         /\ ~RegistrationPending(m) /\ ~RegistrationPending(w)) =>
            /\ w \in Ids(charts[m].workers)
            /\ m \in Ids(charts[w].managers)

\* A manager and a worker know each other, every event is delivered and
\* the manager has handled a tick.
C38_Witness ==
    \E m, w \in Charts :
        /\ Runs(m, "MCEA_MANAGER") /\ Runs(w, "MCEA_WORKER")
        /\ charts[m].inbox = <<>> /\ charts[w].inbox = <<>>
        /\ charts[m].workers = <<w>>
        /\ charts[w].managers = <<m>>
        /\ charts[m].queue_id = -1

\* No id occurs twice in the sequence.
NoDuplicate(set) == \A i, j \in DOMAIN set : set[i] = set[j] => i = j

\* The chart-id sets without duplicate over the charts of the model.
IdSets == {set \in UNION {[1..n -> Charts] : n \in 0..MaxCharts} : NoDuplicate(set)}

\* C39: the sets workers and managers of every program never hold a chart
\* id twice; on every set without duplicate, Add of an id it holds returns
\* false and leaves it as it is, Add of another id appends it, and clean
\* keeps, in their order, exactly the ids of the charts that are open.
C39_IdSetNoDuplicates ==
    /\ \A c \in Charts : /\ NoDuplicate(charts[c].workers)
                         /\ NoDuplicate(charts[c].managers)
    /\ \A set \in IdSets :
          /\ \A id \in Charts :
                /\ id \in Ids(set) => Add(set, id) = [ok |-> FALSE, set |-> set]
                /\ id \notin Ids(set) =>
                      Add(set, id) = [ok |-> TRUE, set |-> Append(set, id)]
                /\ NoDuplicate(Add(set, id).set)
          /\ clean(set) = SelectSeq(set, LAMBDA id : charts[id].open)

\* A worker holds the id of a manager whose reply to the worker's
\* registration is still to come (Add will meet an id the set holds), and a
\* chart is closed (clean has an id to remove).
C39_Witness ==
    \E w, m \in Charts :
        /\ Runs(w, "MCEA_WORKER")
        /\ m \in Ids(charts[w].managers)
        /\ \E i \in DOMAIN charts[w].inbox :
              charts[w].inbox[i] = Event("MCEA_WORKER_REGISTER_REPLY", m)
        /\ \E c \in Charts : ~charts[c].open

====
